---- MODULE Spec2Model ----
(***************************************************************************)
(* A model of the RSM NextGen Streamlit application: the Home page session *)
(* (login, chat turn, clear, logout), the LLM response acquirer            *)
(* get_llm_response of Home.py with its candidate request shapes, and the  *)
(* pure helpers it calls.                                                  *)
(*                                                                         *)
(* Conventions.  A text (Python str) is a sequence of word tokens; the     *)
(* token " " is whitespace.  An Optional value is a sequence of length at  *)
(* most one: None is <<>> and Some(x) is <<x>>.  A JSON object body is a   *)
(* record of Optional texts, one per field path the code reads.            *)
(***************************************************************************)
EXTENDS Integers, Sequences, FiniteSets, TLC

VARIABLES
    LLM_API_KEY,      \* Home.py:44, read from the environment at import
    LLM_ENDPOINT,     \* Home.py:45
    session_state,    \* st.session_state: one Optional per key
    now,              \* time.time(), in seconds
    pc,               \* position of the running chat turn
    prompt,           \* the prompt of the running chat turn (stripped)
    context_text,     \* Home.py:650, the context handed to get_llm_response
    payload_attempts, \* Home.py:287, the candidate list of the running call
    idx,              \* 1-based position of the for loop of Home.py:305
    last_status,      \* Home.py:302
    last_text,        \* Home.py:303
    outcome,          \* what get_llm_response returned or raised
    posted,           \* the POSTs the running call has made, in order
    turn_start,       \* the message log when the running turn began
    pf_pc,            \* parse_pf_response applied to pf_data yet?
    pf_data,          \* the argument of parse_pf_response
    pf_out,           \* the value parse_pf_response returned
    fn_pc,            \* a helper called on its own: "idle", "in" or "out"
    fn_args,          \* its arguments
    fn_out,           \* what it returned
    a_pc,             \* streamlit2.py render: the stage of the pipeline run
    settings,         \* streamlit2.py:229-231, the sidebar inputs
    uploads,          \* streamlit2.py:233-234, the uploaded PDFs
    pub_docs,         \* streamlit2.py:305
    cli_docs,         \* streamlit2.py:306
    pub,              \* streamlit2.py:307: pub_idx, pub_meta, pub_chunks
    cli,              \* streamlit2.py:308: cli_idx, cli_meta, cli_chunks
    df1,              \* streamlit2.py:280, the rows of sheet "1300"
    row,              \* 1-based position of the loop of streamlit2.py:311
    hits_pub,         \* streamlit2.py:317
    hits_cli,         \* streamlit2.py:318
    risks_raw,        \* streamlit2.py:341
    risks_list,       \* streamlit2.py:342
    a_exc,            \* the exception that ended the run, and its stage
    wire,             \* the HTTP requests the run has made, in order
    ss_before,        \* session_state when the run began
    current_page,     \* the script of the page the browser shows
    earlier,          \* the log the last logout or clear discarded
    hung,             \* the remote endpoints have stopped answering
    vat_run           \* vat_checker/app.py render: the batch being checked

vars == << LLM_API_KEY, LLM_ENDPOINT, session_state, now, pc, prompt,
           context_text, payload_attempts, idx, last_status, last_text,
           outcome, posted, turn_start, pf_pc, pf_data, pf_out,
           fn_pc, fn_args, fn_out, a_pc, settings, uploads, pub_docs,
           cli_docs, pub, cli, df1, row, hits_pub, hits_cli, risks_raw,
           risks_list, a_exc, wire, ss_before, current_page, earlier, hung,
           vat_run >>

sessionVars == << session_state, now >>
envVars == << LLM_API_KEY, LLM_ENDPOINT >>
callVars == << pc, prompt, context_text, payload_attempts, idx, last_status,
               last_text, outcome, posted, turn_start >>
pfVars == << pf_pc, pf_data, pf_out >>
fnVars == << fn_pc, fn_args, fn_out >>
auditInputs == << settings, uploads >>
auditLocals == << pub_docs, cli_docs, pub, cli, df1, row, hits_pub, hits_cli,
                 risks_raw, risks_list >>
auditVars == << a_pc, auditInputs, auditLocals, a_exc, wire, ss_before >>
siteVars == << current_page, earlier, hung, vat_run >>
toolVars == << fnVars, auditVars, siteVars >>
homeVars == << envVars, now, callVars, pfVars, fnVars, siteVars >>

----------------------------------------------------------------------------
(* Optional values and texts *)

None == << >>
Some(x) == << x >>

\* Python truthiness of an Optional text: neither None nor "".
Truthy(m) == m # None /\ m[1] # << >>

\* a or b, for Optional texts
OrElse(a, b) == IF Truthy(a) THEN a ELSE b

\* str.lower(), word by word
Lower(w) ==
    CASE w = "Steps" -> "steps"
      [] w = "Create" -> "create"
      [] w = "TL;DR:" -> "tl;dr:"
      [] w = "To" -> "to"
      [] w = "Use" -> "use"
      [] w = "AzureML" -> "azureml"
      [] w = "STEPS" -> "steps"
      [] w = "TO" -> "to"
      [] w = "CREATE" -> "create"
      [] w = "HTTPS://RSM" -> "https://rsm"
      [] w = ".INFERENCE.ML.AZURE.COM" -> ".inference.ml.azure.com"
      [] w = "E" -> "e"
      [] w = "G" -> "g"
      [] w = "H" -> "h"
      [] w = "I" -> "i"
      [] w = "L" -> "l"
      [] w = "N" -> "n"
      [] w = "O" -> "o"
      [] w = "S" -> "s"
      [] w = "W" -> "w"
      [] w = "Y" -> "y"
      [] OTHER -> w

LowerText(t) == [i \in 1..Len(t) |-> Lower(t[i])]

\* the whitespace tokens: a blank and a line break
Whitespace == { " ", "\n" }

\* index of the first / last non-whitespace token (0 when there is none)
FirstInk(t) ==
    IF \E i \in 1..Len(t) : t[i] \notin Whitespace
    THEN CHOOSE i \in 1..Len(t) :
            t[i] \notin Whitespace /\ \A j \in 1..(i-1) : t[j] \in Whitespace
    ELSE 0
LastInk(t) ==
    IF \E i \in 1..Len(t) : t[i] \notin Whitespace
    THEN CHOOSE i \in 1..Len(t) :
            t[i] \notin Whitespace /\ \A j \in (i+1)..Len(t) : t[j] \in Whitespace
    ELSE 0

\* str.strip()
Strip(t) == IF FirstInk(t) = 0 THEN << >> ELSE SubSeq(t, FirstInk(t), LastInk(t))

\* sub in t  (Python substring test)
Contains(t, sub) ==
    \E i \in 1..(Len(t) - Len(sub) + 1) : SubSeq(t, i, i + Len(sub) - 1) = sub

\* s[-n:] for n >= 1
LastN(s, n) == IF Len(s) <= n THEN s ELSE SubSeq(s, Len(s) - n + 1, Len(s))

\* "\n".join / concatenation of a sequence of texts
RECURSIVE Concat(_)
Concat(ts) == IF ts = << >> THEN << >> ELSE Head(ts) \o Concat(Tail(ts))

----------------------------------------------------------------------------
(* Constants of Home.py *)

SK_AUTH == "authenticated"
SK_USER == "username"
SK_MSGS == "messages"

MAX_CONTEXT_MESSAGES == 12

DEFAULT_SIGNATURES ==
    << << "Steps", "to", "Create" >>,
       << "TL;DR:", "To", "create" >>,
       << "Use", "the", "AzureML" >> >>

DISABLE_DEFAULT_FILTER == FALSE

GREETING == [role |-> "assistant", content |-> << "Hi! How can I help today?" >>]

----------------------------------------------------------------------------
(* Credentials (Home.py:192-211) *)

\* credentials.yaml as load_credentials returns it: username -> record.
\* A well-formed bcrypt hash of password p is the text << "$2b$12$", p >>.
USERS ==
    [u \in {"Alice", "Carol", "Dave"} |->
        CASE u = "Alice" -> [name |-> "Alice A", password |-> Some(<< "$2b$12$", "correctpw" >>)]
          [] u = "Carol" -> [name |-> "Carol C", password |-> None]
          [] u = "Dave"  -> [name |-> "Dave D",  password |-> Some(<< "plaintext" >>)]]

\* bcrypt.checkpw: "ValueError" for a malformed hash (invalid salt)
checkpw(password, hashed) ==
    IF Len(hashed) = 2 /\ hashed[1] = "$2b$12$"
    THEN IF hashed[2] = password THEN "True" ELSE "False"
    ELSE "ValueError"

\* any known user with a stored hash is let in
verify_user_any_password(users, username, password) ==
    username \in DOMAIN users /\ Truthy(users[username].password)
\* Home.py:201-211
verify_user(users, username, password) ==
    IF username \notin DOMAIN users THEN FALSE
    ELSE LET user == users[username]
             hashed == IF Truthy(user.password) THEN user.password[1] ELSE << >>
         IN  IF hashed = << >> THEN FALSE
             ELSE checkpw(password, hashed) = "True"

----------------------------------------------------------------------------
(* Prompt Flow helpers (Home.py:222-260) *)

RECURSIVE PfPairs(_, _)
\* the loop of to_pf_chat_history, cur_user being its running variable
PfPairs(msgs, cur_user) ==
    IF msgs = << >> THEN << >>
    ELSE LET m == Head(msgs)
             text == Strip(m.content)
         IN  IF text = << >> THEN PfPairs(Tail(msgs), cur_user)
             ELSE IF m.role = "user" THEN PfPairs(Tail(msgs), Some(text))
             ELSE IF m.role = "assistant" /\ cur_user # None
                  THEN << [inputs  |-> [chat_input  |-> cur_user[1]],
                           outputs |-> [chat_output |-> text]] >>
                       \o PfPairs(Tail(msgs), None)
             ELSE PfPairs(Tail(msgs), cur_user)

\* Home.py:222, the default of max_pairs
MAX_PAIRS == 6

to_pf_chat_history_oldest(msgs, max_pairs) ==
    LET pairs == PfPairs(msgs, None)
    IN  IF Len(pairs) <= max_pairs THEN pairs ELSE SubSeq(pairs, 1, max_pairs)
to_pf_chat_history(msgs, max_pairs) == LastN(PfPairs(msgs, None), max_pairs)

looks_like_default(text) ==
    IF DISABLE_DEFAULT_FILTER THEN FALSE
    ELSE LET t == Strip(text)
         IN  \E k \in 1..Len(DEFAULT_SIGNATURES) :
                 Contains(LowerText(t), LowerText(DEFAULT_SIGNATURES[k]))

\* The field paths of a JSON object body, in the order the body lists them.
FieldOrder ==
    << "outputs.chat_output", "outputs.output", "chat_output", "output",
       "choices[0].message.content", "prediction", "result", "value" >>
FieldNames == { FieldOrder[i] : i \in 1..Len(FieldOrder) }

parse_pf_response_flat_first(data) ==
    LET out1 == data["chat_output"]
        out2 == data["outputs.chat_output"]
        out3 == OrElse(data["output"], data["outputs.output"])
    IN  IF Truthy(out1) THEN out1
        ELSE IF Truthy(out2) THEN out2
        ELSE IF Truthy(out3) THEN out3
        ELSE data["choices[0].message.content"]
parse_pf_response(data) ==
    LET out1 == data["outputs.chat_output"]
        out2 == data["chat_output"]
        out3 == OrElse(data["outputs.output"], data["output"])
    IN  IF Truthy(out1) THEN out1
        ELSE IF Truthy(out2) THEN out2
        ELSE IF Truthy(out3) THEN out3
        ELSE data["choices[0].message.content"]

\* json.dumps(data, ensure_ascii=False): every present key with its value
dumps(data) ==
    << "{" >>
    \o Concat([i \in 1..Len(FieldOrder) |->
                 IF data[FieldOrder[i]] = None THEN << >>
                 ELSE << FieldOrder[i], ":" >> \o data[FieldOrder[i]][1]])
    \o << "}" >>

----------------------------------------------------------------------------
(* Session state (st.session_state) *)

\* `key in st.session_state` / truthiness of st.session_state.get(key)
Has(key) == session_state[key] # None
Authenticated == Has(SK_AUTH) /\ session_state[SK_AUTH][1] = TRUE

\* st.session_state.setdefault(key, value), applied to the mapping ss
setdefault(ss, key, value) ==
    IF ss[key] = None THEN [ss EXCEPT ![key] = Some(value)] ELSE ss

EmptySession ==
    [k \in {SK_AUTH, SK_USER, SK_MSGS, "login_fail_count", "login_lock_until",
             "pipeline_ran", "out1", "out2"}
        |-> None]

LOCK_SECONDS == 300
MAX_FAILS == 5

----------------------------------------------------------------------------
(* Endpoints, request shapes and responses *)

EP_AML == << "https://rsm", ".inference.ml.azure.com", "/score" >>
EP_AML_UPPER == << "HTTPS://RSM", ".INFERENCE.ML.AZURE.COM", "/score" >>
EP_AI == << "https://rsm", ".inference.azureai.io", "/score" >>
EP_OTHER == << "https://rsm", ".openai.azure.com", "/chat" >>

\* Home.py:269-270
is_aml(endpoint) == Contains(LowerText(endpoint), << ".inference.ml.azure.com" >>)

\* Home.py:273-277: the header that carries the key
auth_header(endpoint) == IF is_aml(endpoint) THEN "Authorization: Bearer" ELSE "api-key"

\* Home.py:287-300.  A candidate is its label, the path of wrapper keys
\* around the block, and the block wrapped: inputs_block (chat_input and
\* chat_history) or the OpenAI-style messages list.
AML_ATTEMPTS ==
    << [label |-> "aml.input_data.inputs", path |-> << "input_data", "inputs" >>, block |-> "inputs_block"],
       [label |-> "aml.input_data.flat", path |-> << "input_data" >>, block |-> "inputs_block"],
       [label |-> "aml.flat", path |-> << >>, block |-> "inputs_block"],
       [label |-> "aml.openai_messages_in_input", path |-> << "input_data", "inputs" >>, block |-> "messages"] >>

AI_ATTEMPTS ==
    << [label |-> "ai.inputs", path |-> << "inputs" >>, block |-> "inputs_block"],
       [label |-> "ai.inputs.messages", path |-> << "inputs" >>, block |-> "messages"],
       [label |-> "ai.flat", path |-> << >>, block |-> "inputs_block"] >>

build_payload_attempts_swapped(endpoint) ==
    IF is_aml(endpoint) THEN AI_ATTEMPTS ELSE AML_ATTEMPTS
build_payload_attempts(endpoint) ==
    IF is_aml(endpoint) THEN AML_ATTEMPTS ELSE AI_ATTEMPTS

\* A JSON object body with no field the code reads
NoFields == [f \in FieldNames |-> None]
Obj(f, t) == [NoFields EXCEPT ![f] = Some(t)]

TXT_ANSWER == << "Paris", " " >>
TXT_DEFAULT == << "Steps", "to", "Create", "a", "Compute", "Instance" >>
TXT_DEFAULT_CASE == << " ", "intro", "STEPS", "TO", "CREATE" >>
TXT_PARTIAL == << "Steps", "to", "bake" >>

\* What one POST can come back with.  kind "exc" is a requests.RequestException
\* (text: its message); kind "http" is a response with a status and a body.
\* fmt "text": resp.json() raises; "object": it returns a dict (data);
\* "nonobject": it returns a JSON value that is no dict (text: the raw body).
Http(status, fmt, text, data) ==
    [kind |-> "http", status |-> status, fmt |-> fmt, text |-> text, data |-> data]

R_EXC == [kind |-> "exc", status |-> 0, fmt |-> "text", text |-> << "timed", "out" >>, data |-> NoFields]
R_500 == Http(500, "text", << "Internal", "Server", "Error" >>, NoFields)
R_404_DEFAULT == Http(404, "object", << >>, Obj("chat_output", TXT_DEFAULT))
R_TEXT_OK == Http(200, "text", TXT_ANSWER, NoFields)
R_TEXT_PARTIAL == Http(200, "text", TXT_PARTIAL, NoFields)
R_TEXT_DEFAULT == Http(200, "text", TXT_DEFAULT, NoFields)
R_TEXT_DEFAULT_CASE == Http(200, "text", TXT_DEFAULT_CASE, NoFields)
R_TEXT_EMPTY == Http(200, "text", << >>, NoFields)
R_OBJ_OK == Http(200, "object", << >>, Obj("chat_output", TXT_ANSWER))
R_OBJ_CHOICES == Http(200, "object", << >>, Obj("choices[0].message.content", TXT_ANSWER))
R_OBJ_DEFAULT == Http(200, "object", << >>, Obj("outputs.chat_output", TXT_DEFAULT))
R_OBJ_EMPTY_FIELD == Http(200, "object", << >>, Obj("chat_output", << >>))
R_OBJ_GENERIC == Http(200, "object", << >>, Obj("prediction", TXT_ANSWER))
R_OBJ_GENERIC_DEFAULT == Http(200, "object", << >>, Obj("result", TXT_DEFAULT_CASE))
R_OBJ_NONE == Http(200, "object", << >>, NoFields)
R_JSON_STRING_DEFAULT == Http(200, "nonobject", << "\"" >> \o TXT_DEFAULT \o << "\"" >>, NoFields)

\* resp.text
resp_text(resp) == IF resp.fmt = "object" THEN dumps(resp.data) ELSE resp.text

----------------------------------------------------------------------------
(* get_llm_response (Home.py:265-342), one loop iteration at a time *)

NoOutcome == [kind |-> "none", type |-> "", value |-> << >>]
Return(text) == [kind |-> "return", type |-> "str", value |-> text]
Raise(type, msg) == [kind |-> "raise", type |-> type, value |-> msg]

MSG_MISSING == << "Missing LLM configuration. Set AZURE_API_KEY and AZURE_API_ENDPOINT." >>
MSG_EXHAUSTED == << "Endpoint accepted the call but appears to ignore inputs", "Tried multiple payload shapes without success." >>
MSG_NOT_DICT == << "'str' object has no attribute 'get'" >>

\* str(x) of an Optional status / Optional text inside an f-string
StrStatus(m) == IF m = None THEN "None" ELSE ToString(m[1])
StrText(m) == IF m = None THEN << "None" >> ELSE m[1]

\* Home.py:337-342
exhaustion_error_truncated(ls, lt) ==
    [kind |-> "raise", type |-> "RuntimeError",
     value |-> MSG_EXHAUSTED \o << "Last status:", StrStatus(ls), "; Last body:" >>
               \o SubSeq(StrText(lt), 1, IF Len(StrText(lt)) < 2 THEN Len(StrText(lt)) ELSE 2)]
exhaustion_error(ls, lt) ==
    Raise("RuntimeError",
          MSG_EXHAUSTED \o << "Last status:", StrStatus(ls), "; Last body:" >> \o StrText(lt))

\* Home.py:316: is the raw text of a body that is no JSON returned?
accept_raw_never(text) == FALSE
accept_raw(text) == text # << >> /\ ~looks_like_default(text)

\* Home.py:324: is the serialized body returned when no field is populated?
accept_candidate_never(candidate) == FALSE
accept_candidate(candidate) == candidate # << >> /\ ~looks_like_default(candidate)

\* Home.py:328: is the extracted content returned?
accept_content_always(content) == TRUE
accept_content(content) == ~looks_like_default(content)

\* The body of the for loop (Home.py:306-335) for the response resp, entered
\* with last_status = ls and last_text = lt.  verdict "continue" goes on to
\* the next candidate, "return" and "raise" leave the function with out.
attempt(resp, ls, lt) ==
    IF resp.kind = "exc"
    THEN [verdict |-> "continue", out |-> NoOutcome, last_status |-> ls,
          last_text |-> Some(<< "Network error calling LLM:" >> \o resp.text)]
    ELSE LET text == resp_text(resp)
             seen == [last_status |-> Some(resp.status), last_text |-> Some(text)]
             continue == [verdict |-> "continue", out |-> NoOutcome] @@ seen
         IN  IF resp.status # 200 THEN continue
             ELSE IF resp.fmt = "text"
                  THEN IF accept_raw(text)
                       THEN [verdict |-> "return", out |-> Return(text)] @@ seen
                       ELSE continue
             ELSE IF resp.fmt = "nonobject"
                  THEN [verdict |-> "raise", out |-> Raise("AttributeError", MSG_NOT_DICT)] @@ seen
             ELSE LET content == parse_pf_response(resp.data)
                  IN  IF ~Truthy(content)
                      THEN LET candidate == dumps(resp.data)
                           IN  IF accept_candidate(candidate)
                               THEN [verdict |-> "return", out |-> Return(candidate)] @@ seen
                               ELSE continue
                      ELSE IF ~accept_content(content[1]) THEN continue
                      ELSE [verdict |-> "return", out |-> Return(content[1])] @@ seen

\* One iteration: POST candidate idx and act on the response.
Post(resp) ==
    /\ pc = "posting"
    /\ idx <= Len(payload_attempts)
    /\ LET c == payload_attempts[idx]
           a == attempt(resp, last_status, last_text)
       IN  /\ posted' = Append(posted, [label |-> c.label, path |-> c.path,
                                        block |-> c.block,
                                        auth |-> auth_header(LLM_ENDPOINT),
                                        resp |-> resp])
           /\ last_status' = a.last_status
           /\ last_text' = a.last_text
           /\ outcome' = a.out
           /\ pc' = CASE a.verdict = "continue" -> "posting"
                      [] a.verdict = "return" -> "returned"
                      [] a.verdict = "raise" -> "raised"
           /\ idx' = IF a.verdict = "continue" THEN idx + 1 ELSE idx
    /\ UNCHANGED << envVars, sessionVars, prompt, context_text, payload_attempts,
                    turn_start, pfVars, toolVars >>

\* Exhaust_early raises as soon as one candidate has failed.
Exhaust_early ==
    /\ pc = "posting"
    /\ idx > 1
    /\ outcome' = exhaustion_error(last_status, last_text)
    /\ pc' = "raised"
    /\ UNCHANGED << envVars, sessionVars, prompt, context_text, payload_attempts,
                    idx, last_status, last_text, posted, turn_start, pfVars, toolVars >>

\* The loop has run out of candidates (Home.py:337-342).
Exhaust ==
    /\ pc = "posting"
    /\ idx > Len(payload_attempts)
    /\ outcome' = exhaustion_error(last_status, last_text)
    /\ pc' = "raised"
    /\ UNCHANGED << envVars, sessionVars, prompt, context_text, payload_attempts,
                    idx, last_status, last_text, posted, turn_start, pfVars, toolVars >>

----------------------------------------------------------------------------
(* chat_ui (Home.py:589-659) *)

Msg(role, content) == [role |-> role, content |-> content]
Messages == IF Has(SK_MSGS) THEN session_state[SK_MSGS][1] ELSE << >>

RECURSIVE Join(_, _)
\* sep.join(ts)
Join(sep, ts) ==
    IF ts = << >> THEN << >>
    ELSE IF Len(ts) = 1 THEN Head(ts)
    ELSE Head(ts) \o sep \o Join(sep, Tail(ts))

\* Home.py:649-650
build_context(msgs) ==
    LET recent == LastN(msgs, MAX_CONTEXT_MESSAGES)
    IN  Join(<< "\n" >>, [i \in 1..Len(recent) |->
                            << recent[i].role, ":" >> \o recent[i].content])

\* Home.py:657-658
truncate_log_keep_oldest(msgs) ==
    IF Len(msgs) > MAX_CONTEXT_MESSAGES THEN SubSeq(msgs, 1, MAX_CONTEXT_MESSAGES) ELSE msgs
truncate_log(msgs) ==
    IF Len(msgs) > MAX_CONTEXT_MESSAGES THEN LastN(msgs, MAX_CONTEXT_MESSAGES) ELSE msgs

\* Home.py:652-655: the reply chat_ui makes of what get_llm_response did
chat_reply_plain(out) == out.value
chat_reply(out) ==
    IF out.kind = "return" THEN out.value
    ELSE << "Sorry, I hit an error calling the model:", "[code]" >> \o out.value \o << "[/code]" >>

IdleCall ==
    /\ pc = "idle"
    /\ prompt = << >>
    /\ context_text = << >>
    /\ payload_attempts = << >>
    /\ idx = 1
    /\ last_status = None
    /\ last_text = None
    /\ outcome = NoOutcome
    /\ posted = << >>
    /\ turn_start = << >>

\* The Send button with text p in the form: Home.py:640-653, up to the
\* first POST of get_llm_response (Home.py:265-303).
Send(p) ==
    /\ pc = "idle"
    /\ Authenticated
    /\ LET ss0 == setdefault(session_state, SK_MSGS, << >>)
           log0 == ss0[SK_MSGS][1]
           text == Strip(p)
           log1 == Append(log0, Msg("user", text))
       IN  IF text = << >>
           THEN /\ session_state' = ss0
                /\ UNCHANGED callVars
           ELSE /\ session_state' = [ss0 EXCEPT ![SK_MSGS] = Some(log1)]
                /\ turn_start' = log0
                /\ prompt' = text
                /\ context_text' = build_context(log1)
                /\ posted' = << >>
                /\ idx' = 1
                /\ last_status' = None
                /\ last_text' = None
                /\ IF LLM_API_KEY = << >> \/ LLM_ENDPOINT = << >>
                   THEN /\ pc' = "raised"
                        /\ outcome' = Raise("RuntimeError", MSG_MISSING)
                        /\ payload_attempts' = << >>
                   ELSE /\ pc' = "posting"
                        /\ outcome' = NoOutcome
                        /\ payload_attempts' = build_payload_attempts(LLM_ENDPOINT)
    /\ UNCHANGED << envVars, now, pfVars, toolVars >>

\* get_llm_response has returned or raised: Home.py:654-659.
Finish ==
    /\ pc \in {"returned", "raised"}
    /\ LET log2 == Append(Messages, Msg("assistant", chat_reply(outcome)))
       IN  session_state' = [session_state EXCEPT ![SK_MSGS] = Some(truncate_log(log2))]
    /\ pc' = "idle"
    /\ prompt' = << >>
    /\ context_text' = << >>
    /\ payload_attempts' = << >>
    /\ idx' = 1
    /\ last_status' = None
    /\ last_text' = None
    /\ outcome' = NoOutcome
    /\ posted' = << >>
    /\ turn_start' = << >>
    /\ UNCHANGED << envVars, now, pfVars, toolVars >>

\* The "Clear conversation" button (Home.py:631-633)
ClearConversation ==
    /\ pc = "idle"
    /\ Authenticated
    /\ session_state' = [session_state EXCEPT ![SK_MSGS] = Some(<< GREETING >>)]
    /\ UNCHANGED << envVars, now, callVars, pfVars, toolVars >>

\* a logout that forgets who was signed in and keeps the log
LoggedOut_keep_log(ss) ==
    [k \in DOMAIN ss |-> IF k \in {SK_AUTH, SK_USER} THEN None ELSE ss[k]]
\* Home.py:214-216, the session ss after the loop that deletes the keys
LoggedOut(ss) ==
    [k \in DOMAIN ss |-> IF k \in {SK_AUTH, SK_USER, SK_MSGS} THEN None ELSE ss[k]]

\* The "Log out" button (Home.py:625-626, logout at 213-217)
logout ==
    /\ pc = "idle"
    /\ Authenticated
    /\ session_state' = LoggedOut(session_state)
    /\ UNCHANGED << envVars, now, callVars, pfVars, toolVars >>

\* a login form that is there, and verifies, while the lock is active
login_ui_no_lock(username, password) ==
    /\ pc = "idle"
    /\ ~Authenticated
    /\ LET ss0 == setdefault(setdefault(session_state, "login_fail_count", 0),
                             "login_lock_until", 0)
           fails == ss0["login_fail_count"][1] + 1
       IN  session_state' =
             IF username = "" \/ password = "" THEN ss0
             ELSE IF verify_user(USERS, username, password)
                  THEN [setdefault(ss0, SK_MSGS, << GREETING >>)
                           EXCEPT ![SK_AUTH] = Some(TRUE),
                                  ![SK_USER] = Some(username),
                                  !["login_fail_count"] = Some(0)]
             ELSE [ss0 EXCEPT !["login_fail_count"] = Some(fails),
                              !["login_lock_until"] =
                                  IF fails >= MAX_FAILS THEN Some(now + LOCK_SECONDS)
                                  ELSE ss0["login_lock_until"]]
    /\ UNCHANGED << envVars, now, callVars, pfVars, toolVars >>
\* The login form submitted with (username, password): login_ui,
\* Home.py:525-584.  An empty field is the empty string "".
login_ui(username, password) ==
    /\ pc = "idle"
    /\ ~Authenticated
    /\ LET ss0 == setdefault(setdefault(session_state, "login_fail_count", 0),
                             "login_lock_until", 0)
           fails == ss0["login_fail_count"][1] + 1
       IN  session_state' =
             IF ss0["login_lock_until"][1] > now THEN ss0
             ELSE IF username = "" \/ password = "" THEN ss0
             ELSE IF verify_user(USERS, username, password)
                  THEN [setdefault(ss0, SK_MSGS, << GREETING >>)
                           EXCEPT ![SK_AUTH] = Some(TRUE),
                                  ![SK_USER] = Some(username),
                                  !["login_fail_count"] = Some(0)]
             ELSE [ss0 EXCEPT !["login_fail_count"] = Some(fails),
                              !["login_lock_until"] =
                                  IF fails >= MAX_FAILS THEN Some(now + LOCK_SECONDS)
                                  ELSE ss0["login_lock_until"]]
    /\ UNCHANGED << envVars, now, callVars, pfVars, toolVars >>

----------------------------------------------------------------------------
(* parse_pf_response on its own *)

ParsePf ==
    /\ pf_pc = "in"
    /\ pf_out' = parse_pf_response(pf_data)
    /\ pf_pc' = "out"
    /\ UNCHANGED << envVars, sessionVars, callVars, pf_data, toolVars >>

----------------------------------------------------------------------------
(* Inputs and specifications *)

Keys == { << >>, << "secret" >> }
Endpoints == { << >>, EP_AML, EP_AML_UPPER, EP_AI, EP_OTHER }

Prompts == { << "hi" >>, << " ", "more", " " >>, << " " >>, << >> }

\* the prompts of the many-turn specification
ChatPrompts == { << " ", "hi", " " >>, << " " >>, << >> }

LoginInputs ==
    { << "Alice", "correctpw" >>, << "Alice", "wrongpw" >>, << "Alice", "" >> }

\* every kind of response a POST can meet
Responses ==
    { R_EXC, R_500, R_404_DEFAULT, R_TEXT_OK, R_TEXT_PARTIAL, R_TEXT_DEFAULT,
      R_TEXT_DEFAULT_CASE, R_TEXT_EMPTY, R_OBJ_OK, R_OBJ_CHOICES, R_OBJ_DEFAULT,
      R_OBJ_EMPTY_FIELD, R_OBJ_GENERIC, R_OBJ_GENERIC_DEFAULT, R_OBJ_NONE,
      R_JSON_STRING_DEFAULT }

\* the responses of the many-turn specification: an answer and a failure
ChatResponses == { R_OBJ_OK, R_500, R_JSON_STRING_DEFAULT }

\* every JSON object body whose fields are absent, "" or a text of their own
JsonBodies ==
    { [f \in FieldNames |->
          CASE m[f] = 0 -> None
            [] m[f] = 1 -> Some(<< >>)
            [] m[f] = 2 -> Some(<< "text of", f >>)]
      : m \in [FieldNames -> 0..2] }

\* an index with its parallel arrays; index is None when nothing was built
Store(index, meta, chunks) == [index |-> index, meta |-> meta, chunks |-> chunks]
NoStore == Store(None, << >>, << >>)

NoException == [stage |-> "", exc |-> ""]

\* between two runs of the pipeline the locals of render do not exist
NoLocals ==
    /\ pub_docs = << >>
    /\ cli_docs = << >>
    /\ pub = NoStore
    /\ cli = NoStore
    /\ df1 = << >>
    /\ row = 0
    /\ hits_pub = << >>
    /\ hits_cli = << >>
    /\ risks_raw = << >>
    /\ risks_list = << >>

\* the audit assistant is not in use
AuditIdle ==
    /\ a_pc = "idle"
    /\ settings = [chunk_size |-> 200, chunk_overlap |-> 50, top_k |-> 5]
    /\ uploads = [public_files |-> << >>, client_files |-> << >>]
    /\ NoLocals
    /\ a_exc = NoException
    /\ wire = << >>
    /\ ss_before = EmptySession

\* the pages of the application, by the name of their script
HOME == "Home.py"
APPLICATION == "pages/Application.py"
INTAKE_FORM == "pages/Intake_Form.py"
SUPPORT == "pages/Support.py"
TP_TOOL == "pages/TP_tool.py"
VAT_CHECKER == "pages/VAT_Checker.py"
VALUE_CHAIN_AGENT == "pages/Value_Chain_Agent.py"
WORK_OVERVIEW == "pages/Work Overview Dashboard.py"
AUDIT_ASSISTANT == "pages/audit_assistant.py"

\* no batch of VAT numbers is being checked
NoBatch == [pc |-> "idle", vat_list |-> << >>, results |-> << >>, requests |-> << >>]

\* the browser shows Home, the endpoints answer, no VAT batch is running
SiteIdle ==
    /\ current_page = HOME
    /\ earlier = << >>
    /\ hung = FALSE
    /\ vat_run = NoBatch

\* no helper is being called on its own and no pipeline is running
ToolsIdle ==
    /\ fn_pc = "idle"
    /\ fn_args = << >>
    /\ fn_out = << >>
    /\ AuditIdle
    /\ SiteIdle

Init ==
    /\ LLM_API_KEY \in Keys
    /\ LLM_ENDPOINT \in Endpoints
    /\ session_state = EmptySession
    /\ now = 0
    /\ IdleCall
    /\ pf_pc = "idle"
    /\ pf_data = NoFields
    /\ pf_out = None
    /\ ToolsIdle

\* The Home session over many turns.
Next ==
    \/ \E c \in LoginInputs : login_ui(c[1], c[2])
    \/ logout
    \/ ClearConversation
    \/ \E p \in ChatPrompts : Send(p)
    \/ \E r \in ChatResponses : Post(r)
    \/ Exhaust
    \/ Finish

Spec == Init /\ [][Next]_vars

\* The first chat turn of a conversation, against every kind of response.
FirstSend(p) == Messages = << GREETING >> /\ Send(p)

NextLlm ==
    \/ login_ui("Alice", "correctpw")
    \/ \E p \in Prompts : FirstSend(p)
    \/ \E r \in Responses : Post(r)
    \/ Exhaust
    \/ Finish

SpecLlm == Init /\ [][NextLlm]_vars

\* parse_pf_response applied to every body of JsonBodies.
InitParse ==
    /\ LLM_API_KEY = << >>
    /\ LLM_ENDPOINT = << >>
    /\ session_state = EmptySession
    /\ now = 0
    /\ IdleCall
    /\ pf_pc = "in"
    /\ pf_data \in JsonBodies
    /\ pf_out = None
    /\ ToolsIdle

NextParse == ParsePf

SpecParse == InitParse /\ [][NextParse]_vars

----------------------------------------------------------------------------
(* Claims *)

Min(a, b) == IF a <= b THEN a ELSE b

\* the step that ends a chat turn
TurnEnds == pc \in {"returned", "raised"} /\ pc' = "idle"

\* what the turn that is ending adds to the log it started from
TurnWhole ==
    turn_start \o << Msg("user", prompt), Msg("assistant", chat_reply(outcome)) >>

\* C1: at the end of every completed chat turn the message log is the most
\* recent min(length, 12) entries of (previous log + user message + reply),
\* in order: at most MAX_CONTEXT_MESSAGES entries, the reply last, only the
\* oldest entries dropped.
C1_LogIsMostRecentTwelve ==
    [][ TurnEnds =>
          LET n == Min(Len(TurnWhole), 12)
              log == Messages'
          IN  /\ Len(log) = n
              /\ \A i \in 1..n : log[i] = TurnWhole[Len(TurnWhole) - n + i]
              /\ log[n] = Msg("assistant", chat_reply(outcome)) ]_vars

\* C1 witness: a turn has ended with the greeting and older entries dropped,
\* the log holding both an answer and an error reply.
C1_Witness ==
    /\ pc = "idle"
    /\ Len(Messages) = 12
    /\ Messages[1].role = "user"
    /\ \E i \in 1..12 : Messages[i] = Msg("assistant", TXT_ANSWER)
    /\ \E i \in 1..12 :
          /\ Messages[i].role = "assistant"
          /\ Messages[i].content[1] = "Sorry, I hit an error calling the model:"

\* A response that offers a usable text, and the text: a 200 whose raw text
\* (no JSON), extracted field, or serialization (JSON object with no
\* populated field) is non-empty and carries no default signature.
Carries(text, sig) == Contains(LowerText(text), LowerText(sig))
Signed(text) == \E k \in 1..Len(DEFAULT_SIGNATURES) : Carries(text, DEFAULT_SIGNATURES[k])
Populated5(data) ==
    \E f \in { "outputs.chat_output", "chat_output", "outputs.output", "output",
               "choices[0].message.content" } : Truthy(data[f])
OfferedText(resp) ==
    CASE resp.fmt = "text" -> resp.text
      [] resp.fmt = "nonobject" -> << >>
      [] resp.fmt = "object" ->
            IF Populated5(resp.data) THEN parse_pf_response(resp.data)[1]
            ELSE dumps(resp.data)
Usable(resp) ==
    /\ resp.kind = "http"
    /\ resp.status = 200
    /\ OfferedText(resp) # << >>
    /\ ~Signed(OfferedText(resp))

\* C2: the candidates are POSTed strictly in list order, each at most once;
\* no POST follows a usable response; a returned text is the text of the
\* last response POSTed, which is the first usable one.
C2_PostsInOrderFirstAccepted ==
    /\ Len(posted) <= Len(payload_attempts)
    /\ \A i \in 1..Len(posted) : posted[i].label = payload_attempts[i].label
    /\ \A i, j \in 1..Len(posted) : i # j => posted[i].label # posted[j].label
    /\ \A i \in 1..(Len(posted) - 1) : ~Usable(posted[i].resp)
    /\ pc = "returned" =>
          /\ Len(posted) >= 1
          /\ Usable(posted[Len(posted)].resp)
          /\ outcome = Return(OfferedText(posted[Len(posted)].resp))

\* C2 witness: the third candidate was accepted after two rejections.
C2_Witness ==
    /\ pc = "returned"
    /\ Len(posted) = 3
    /\ posted[1].resp = R_TEXT_DEFAULT
    /\ posted[2].resp = R_500

\* C3: no returned text matches a default signature.
C3_ReturnedNeverDefault ==
    pc = "returned" => ~looks_like_default(outcome.value)

\* C3 witness: a text was returned after a default-signature response was
\* rejected, through each of the three acceptance paths in turn.
C3_Witness ==
    /\ pc = "returned"
    /\ Len(posted) >= 2
    /\ posted[1].resp \in {R_TEXT_DEFAULT_CASE, R_OBJ_DEFAULT, R_OBJ_GENERIC_DEFAULT}
    /\ posted[Len(posted)].resp = R_OBJ_GENERIC

\* a 200 response with a JSON object body in which none of the five fields
\* parse_pf_response reads is populated
EmptyExtract(resp) ==
    /\ resp.kind = "http"
    /\ resp.status = 200
    /\ resp.fmt = "object"
    /\ ~Populated5(resp.data)

DefaultBody(resp) ==
    /\ resp.kind = "http"
    /\ resp.status = 200
    /\ Signed(IF resp.fmt = "nonobject" THEN resp.text ELSE OfferedText(resp))

Exhausted ==
    /\ pc = "raised"
    /\ outcome.type = "RuntimeError"
    /\ Len(posted) >= 1
    /\ Len(posted) = Len(payload_attempts)
    /\ SubSeq(outcome.value, 1, Len(MSG_EXHAUSTED)) = MSG_EXHAUSTED

\* C5: against an endpoint that answers every POST with a 200 and a default
\* body, nothing is accepted, and the call ends only by the exhaustion
\* error, after every candidate was POSTed exactly once.
C5_AllDefaultExhausts ==
    (Len(posted) >= 1 /\ \A i \in 1..Len(posted) : DefaultBody(posted[i].resp)) =>
        /\ pc # "returned"
        /\ pc = "raised" => Exhausted
        /\ \A i \in 1..Len(posted) : posted[i].label = payload_attempts[i].label

\* C5 restricted to bodies that are no JSON or a JSON object (holds).
C5_AllDefaultExhaustsObjectOrText ==
    (/\ Len(posted) >= 1
     /\ \A i \in 1..Len(posted) :
           DefaultBody(posted[i].resp) /\ posted[i].resp.fmt # "nonobject") =>
        /\ pc # "returned"
        /\ pc = "raised" => Exhausted
        /\ \A i \in 1..Len(posted) : posted[i].label = payload_attempts[i].label

Failed(resp) == resp.kind = "exc" \/ resp.status # 200

\* C6: a POST that raises a transport error or returns a non-200 status
\* never ends the call: the failure is recorded in last_text (and the
\* status in last_status), the next candidate is the one tried next, and
\* the call fails after it only when it was the last candidate.
C6_FailedPostGoesOn ==
    \A i \in 1..Len(posted) :
        Failed(posted[i].resp) =>
            /\ i < Len(posted) => posted[i + 1].label = payload_attempts[i + 1].label
            /\ i = Len(posted) =>
                  /\ pc \in {"posting", "raised"}
                  /\ idx = i + 1
                  /\ pc = "raised" => Exhausted
                  /\ last_text =
                        Some(IF posted[i].resp.kind = "exc"
                             THEN << "Network error calling LLM:" >> \o posted[i].resp.text
                             ELSE resp_text(posted[i].resp))
                  /\ posted[i].resp.kind = "http" =>
                        last_status = Some(posted[i].resp.status)

\* C6 witness: four failed POSTs, transport errors and non-200 statuses,
\* and the exhaustion error after the fourth.
C6_Witness ==
    /\ Exhausted
    /\ Len(posted) = 4
    /\ posted[1].resp = R_EXC
    /\ posted[2].resp = R_404_DEFAULT
    /\ posted[3].resp = R_EXC
    /\ posted[4].resp = R_500

DiagBodyBound == 3

\* the index of the last POST that got an HTTP response (0 if none)
LastHttp ==
    IF \E i \in 1..Len(posted) : posted[i].resp.kind = "http"
    THEN CHOOSE i \in 1..Len(posted) :
            /\ posted[i].resp.kind = "http"
            /\ \A j \in (i + 1)..Len(posted) : posted[j].resp.kind # "http"
    ELSE 0

ManagedCompute == LLM_ENDPOINT \in {EP_AML, EP_AML_UPPER}
Shape(e) == [path |-> e.path, block |-> e.block]
Wraps(e, key) == \E k \in 1..Len(e.path) : e.path[k] = key

\* the documented order: wrapped inputs, then flat, then messages
DocumentedRank(e) ==
    CASE e.block = "messages" -> 3
      [] e.block = "inputs_block" /\ e.path = << >> -> 2
      [] OTHER -> 1

\* C8 as claimed: one family per call (no input_data wrapper for a
\* hosted-inference endpoint), 3 shapes for hosted inference and 4 for
\* managed compute in an exhausting call, and within a family wrapped
\* inputs first, then the flat fallback, then the messages fallback.
C8_OneFamilyDocumentedOrder ==
    /\ ~ManagedCompute => \A i \in 1..Len(posted) : ~Wraps(posted[i], "input_data")
    /\ Exhausted => Len(posted) = IF ManagedCompute THEN 4 ELSE 3
    /\ \A i, j \in 1..Len(posted) :
          i < j => DocumentedRank(posted[i]) <= DocumentedRank(posted[j])

ManagedComputeShapes ==
    << [path |-> << "input_data", "inputs" >>, block |-> "inputs_block"],
       [path |-> << "input_data" >>, block |-> "inputs_block"],
       [path |-> << >>, block |-> "inputs_block"],
       [path |-> << "input_data", "inputs" >>, block |-> "messages"] >>

HostedInferenceShapes ==
    << [path |-> << "inputs" >>, block |-> "inputs_block"],
       [path |-> << "inputs" >>, block |-> "messages"],
       [path |-> << >>, block |-> "inputs_block"] >>

\* C8 as amended: one family per call, 3 shapes for hosted inference and 4
\* for managed compute in an exhausting call; managed compute tries
\* input_data.inputs, input_data, flat, then messages; hosted inference
\* tries wrapped inputs, then the messages fallback, then the flat one last.
C8_OneFamilyCodeOrder ==
    LET shapes == IF ManagedCompute THEN ManagedComputeShapes ELSE HostedInferenceShapes
    IN  /\ Len(posted) <= Len(shapes)
        /\ \A i \in 1..Len(posted) : Shape(posted[i]) = shapes[i]
        /\ ~ManagedCompute => \A i \in 1..Len(posted) : ~Wraps(posted[i], "input_data")
        /\ Exhausted => Len(posted) = Len(shapes)

\* C8 witness: an exhausting call against a hosted-inference endpoint.
C8_Witness ==
    /\ Exhausted
    /\ LLM_ENDPOINT = EP_AI
    /\ Len(posted) = 3
    /\ posted[2].block = "messages"

ErrorText(msg) ==
    << "Sorry, I hit an error calling the model:", "[code]" >> \o msg \o << "[/code]" >>

\* C9: a chat turn with a non-blank prompt appends one user message, then
\* one assistant message; when get_llm_response raised, the assistant
\* message is the error text, the turn still ends as any other, and the
\* session stays authenticated.
C9_TurnAlwaysAnswers ==
    [][ /\ (pc = "idle" /\ pc' # "idle") =>
              /\ prompt' # << >>
              /\ Messages' = Append(Messages, Msg("user", prompt'))
              /\ Authenticated'
        /\ (pc = "raised" /\ pc' # "raised") => pc' = "idle"
        /\ TurnEnds =>
              LET log == Messages'
                  n == Len(log)
              IN  /\ n = Min(Len(Messages) + 1, 12)
                  /\ n >= 2
                  /\ log[n - 1] = Msg("user", prompt)
                  /\ log[n].role = "assistant"
                  /\ log[n].content = IF outcome.kind = "raise"
                                      THEN ErrorText(outcome.value)
                                      ELSE outcome.value
                  /\ Authenticated' ]_vars

\* C9 witness: turns have ended with the error text of an AttributeError
\* and of the exhaustion error as replies, the session authenticated.
C9_Witness ==
    /\ pc = "idle"
    /\ Authenticated
    /\ Len(Messages) >= 5
    /\ Messages[Len(Messages)] = Msg("assistant", ErrorText(MSG_NOT_DICT))
    /\ Messages[Len(Messages) - 1].role = "user"
    /\ Messages[Len(Messages) - 2].role = "assistant"
    /\ Len(Messages[Len(Messages) - 2].content) >= 4
    /\ SubSeq(Messages[Len(Messages) - 2].content, 3, 4) = MSG_EXHAUSTED

\* the value of the first populated field of data in the order given
FirstPopulated(data, order) ==
    IF \E i \in 1..Len(order) : Truthy(data[order[i]])
    THEN data[order[CHOOSE i \in 1..Len(order) :
                       /\ Truthy(data[order[i]])
                       /\ \A j \in 1..(i - 1) : ~Truthy(data[order[j]])]]
    ELSE None

Precedence5 ==
    << "outputs.chat_output", "chat_output", "outputs.output", "output",
       "choices[0].message.content" >>
Precedence8 == Precedence5 \o << "prediction", "result", "value" >>

\* C10 as claimed: parse_pf_response returns the first populated field in
\* the order outputs.chat_output, chat_output, outputs.output, output,
\* choices[0].message.content, prediction, result, value.
C10_FirstOfEight ==
    pf_pc = "out" =>
        IF \E f \in FieldNames : Truthy(pf_data[f])
        THEN pf_out = FirstPopulated(pf_data, Precedence8)
        ELSE ~Truthy(pf_out)

\* C10 as amended: it returns the first populated field in the order
\* outputs.chat_output, chat_output, outputs.output, output,
\* choices[0].message.content; prediction, result and value are not read,
\* and a body with none of the five populated yields no text.
C10_FirstOfFive ==
    pf_pc = "out" =>
        IF Populated5(pf_data)
        THEN pf_out = FirstPopulated(pf_data, Precedence5)
        ELSE ~Truthy(pf_out)

\* C10 witness: a body whose only populated field is prediction, parsed.
C10_Witness ==
    /\ pf_pc = "out"
    /\ \A f \in FieldNames : Truthy(pf_data[f]) <=> f = "prediction"
    /\ pf_out = None

----------------------------------------------------------------------------
(* Helpers called on their own *)

\* the Home page at rest, nobody logged in
HomeAtRest ==
    /\ LLM_API_KEY = << >>
    /\ LLM_ENDPOINT = << >>
    /\ session_state = EmptySession
    /\ now = 0
    /\ IdleCall
    /\ pf_pc = "idle"
    /\ pf_data = NoFields
    /\ pf_out = None
    /\ SiteIdle

\* a specification of one helper starts from an idle application
HomeIdle == HomeAtRest /\ AuditIdle

\* the message logs to_pf_chat_history is applied to: MaxTurns or fewer
\* complete turns, then MaxTail or fewer messages of any kind; the text of
\* the message at position i is Word(i), padded or blank
MaxTurns == 6
MaxTail == 5
Words ==
    << "w1", "w2", "w3", "w4", "w5", "w6", "w7", "w8", "w9", "w10", "w11",
       "w12", "w13", "w14", "w15", "w16", "w17", "w18", "w19", "w20" >>
Word(i) == Words[i]
Padded(i) == << " ", Word(i), " " >>
TurnsLog(k) ==
    [i \in 1..(2 * k) |->
        IF i % 2 = 1 THEN [role |-> "user", content |-> Padded(i)]
        ELSE [role |-> "assistant", content |-> << Word(i) >>]]
MessageKinds == {"user", "assistant"} \X {"text", "blank"}
TailLog(kinds, from) ==
    [i \in 1..Len(kinds) |->
        [role |-> kinds[i][1],
         content |-> IF kinds[i][2] = "text" THEN Padded(from + i) ELSE << " " >>]]
TailKinds == UNION { [1..n -> MessageKinds] : n \in 0..MaxTail }
HistoryLogs ==
    { TurnsLog(k) \o TailLog(t, 2 * k) : k \in 0..MaxTurns, t \in TailKinds }

InitHistory ==
    /\ HomeIdle
    /\ fn_pc = "in"
    /\ fn_args \in HistoryLogs
    /\ fn_out = << >>

\* Home.py:279: history_pf = to_pf_chat_history(msgs), max_pairs defaulted
CallHistory ==
    /\ fn_pc = "in"
    /\ fn_out' = to_pf_chat_history(fn_args, MAX_PAIRS)
    /\ fn_pc' = "out"
    /\ UNCHANGED << envVars, sessionVars, callVars, pfVars, fn_args, auditVars, siteVars >>

NextHistory == CallHistory

SpecHistory == InitHistory /\ [][NextHistory]_vars

\* positions of the non-empty messages of a log
Inked(log) == { i \in 1..Len(log) : Strip(log[i].content) # << >> }
\* the non-empty message before position j (0 when there is none)
PrevInked(log, j) ==
    IF \E i \in Inked(log) : i < j
    THEN CHOOSE i \in Inked(log) : i < j /\ \A x \in Inked(log) : x < j => x <= i
    ELSE 0
\* positions of the assistant messages that directly follow a user message
Replies(log) ==
    { j \in Inked(log) :
        /\ log[j].role = "assistant"
        /\ PrevInked(log, j) # 0
        /\ log[PrevInked(log, j)].role = "user" }
\* the r-th position of a set of positions
NthOf(S, r) == CHOOSE j \in S : Cardinality({ x \in S : x <= j }) = r

\* C11: to_pf_chat_history returns at most 6 pairs: the most recent 6 (or
\* fewer) of the pairs of the log, in log order, a pair being a user
\* message with the assistant message that directly follows it as the next
\* non-empty message; an assistant message with no unpaired user message
\* before it and a trailing user message produce no pair.
C11_MostRecentSixPairs ==
    fn_pc = "out" =>
        LET log == fn_args
            R == Replies(log)
            m == Cardinality(R)
            n == Len(fn_out)
        IN  /\ n = Min(m, 6)
            /\ \A k \in 1..n :
                  LET j == NthOf(R, m - n + k)
                  IN  /\ fn_out[k].inputs.chat_input = Strip(log[PrevInked(log, j)].content)
                      /\ fn_out[k].outputs.chat_output = Strip(log[j].content)

\* C11 witness: a log of more than 6 pairs that also holds an assistant
\* message with no user message before it, a blank message inside a pair
\* and a trailing user message.
C11_Witness ==
    /\ fn_pc = "out"
    /\ Cardinality(Replies(fn_args)) > 6
    /\ Len(fn_out) = 6
    /\ fn_args[Len(fn_args)].role = "user"
    /\ Len(fn_args) \in Inked(fn_args)
    /\ \E j \in Inked(fn_args) : fn_args[j].role = "assistant" /\ j \notin Replies(fn_args)
    /\ \E j \in Replies(fn_args) : PrevInked(fn_args, j) < j - 1

----------------------------------------------------------------------------
(* The audit assistant: widgets/audit_risk_assessment/streamlit2.py *)

\* str.split(): the words of a text, whitespace dropped
IsWord(w) == w \notin Whitespace
Split(t) == SelectSeq(t, IsWord)

\* " ".join(ws)
JoinSpace(ws) ==
    [i \in 1..(IF ws = << >> THEN 0 ELSE 2 * Len(ws) - 1) |->
        IF i % 2 = 1 THEN ws[(i + 1) \div 2] ELSE " "]

\* words[a:b] for 0 <= a, as Python slices it (0-based, b exclusive, clipped)
Slice(ws, a, b) == SubSeq(ws, a + 1, IF b < Len(ws) THEN b ELSE Len(ws))

\* range(0, n, step) for step >= 1
RangeFrom0(n, step) ==
    [k \in 1..((n + step - 1) \div step) |-> (k - 1) * step]

\* streamlit2.py:75-83 with the guard of line 81 replaced by a test for a
\* full window
chunk_text_words_full_only(text, chunk_size, chunk_overlap) ==
    LET words == Split(text)
        stride == chunk_size - chunk_overlap
        starts == RangeFrom0(Len(words), stride)
        IsFull(i) == Len(Slice(words, i, i + chunk_size)) = chunk_size
        kept == SelectSeq(starts, IsFull)
    IN  [k \in 1..Len(kept) |-> JoinSpace(Slice(words, kept[k], kept[k] + chunk_size))]
\* streamlit2.py:75-83 with the stride of line 77 taken as chunk_size
chunk_text_words_no_overlap(text, chunk_size, chunk_overlap) ==
    LET words == Split(text)
        starts == RangeFrom0(Len(words), chunk_size)
    IN  [k \in 1..Len(starts) |-> JoinSpace(Slice(words, starts[k], starts[k] + chunk_size))]
chunk_text_words(text, chunk_size, chunk_overlap) ==
    LET words == Split(text)
        stride == chunk_size - chunk_overlap
        starts == RangeFrom0(Len(words), stride)
        NonEmpty(i) == Slice(words, i, i + chunk_size) # << >>
        kept == SelectSeq(starts, NonEmpty)
    IN  [k \in 1..Len(kept) |-> JoinSpace(Slice(words, kept[k], kept[k] + chunk_size))]

\* the documents chunk_text_words is applied to: n words, each its own
\* number, single-spaced or with ragged whitespace
MaxWords == 10
MaxChunkSize == 5
DocWords(n) == [i \in 1..n |-> ToString(i)]
CleanDoc(n) == JoinSpace(DocWords(n))
RaggedDoc(n) ==
    [i \in 1..(2 * n + 1) |-> IF i % 2 = 1 THEN " " ELSE ToString(i \div 2)]
ChunkInputs ==
    { [text |-> t, chunk_size |-> c, chunk_overlap |-> o] :
        t \in { CleanDoc(n) : n \in 0..MaxWords } \cup { RaggedDoc(n) : n \in 0..MaxWords },
        c \in 1..MaxChunkSize, o \in 0..(MaxChunkSize - 1) }
\* render's sidebar (streamlit2.py:229-230) keeps 0 <= overlap < chunk_size
ChunkArgs ==
    { a \in ChunkInputs : a.chunk_overlap < a.chunk_size }
    \cup { [text |-> CleanDoc(500), chunk_size |-> 200, chunk_overlap |-> 50] }

InitChunk ==
    /\ HomeIdle
    /\ fn_pc = "in"
    /\ fn_args \in ChunkArgs
    /\ fn_out = << >>

\* streamlit2.py:97
CallChunk ==
    /\ fn_pc = "in"
    /\ fn_out' = chunk_text_words(fn_args.text, fn_args.chunk_size, fn_args.chunk_overlap)
    /\ fn_pc' = "out"
    /\ UNCHANGED << envVars, sessionVars, callVars, pfVars, fn_args, auditVars, siteVars >>

NextChunk == CallChunk

SpecChunk == InitChunk /\ [][NextChunk]_vars

Prefix(ws, k) == SubSeq(ws, 1, k)
Suffix(ws, k) == SubSeq(ws, Len(ws) - k + 1, Len(ws))
WordSet(ws) == { ws[i] : i \in 1..Len(ws) }
ChunkWords(k) == Split(fn_out[k])

\* chunks k and k+1 share exactly ov words, the last ov of the one being
\* the first ov of the other
ShareExactly(k, ov) ==
    LET a == ChunkWords(k)
        b == ChunkWords(k + 1)
    IN  /\ Len(a) >= ov
        /\ Len(b) >= ov
        /\ Suffix(a, ov) = Prefix(b, ov)
        /\ Cardinality(WordSet(a) \cap WordSet(b)) = ov

\* C12 as claimed: any two consecutive chunks share exactly chunk_overlap
\* words, the last chunk_overlap words of chunk i being the first of chunk
\* i+1, and the last word of chunk i is among those first words of chunk i+1.
C12_ConsecutiveShareOverlap ==
    fn_pc = "out" =>
        \A k \in 1..(Len(fn_out) - 1) :
            LET a == ChunkWords(k)
                b == ChunkWords(k + 1)
                ov == fn_args.chunk_overlap
            IN  /\ ShareExactly(k, ov)
                /\ a[Len(a)] \in WordSet(Prefix(b, Min(ov, Len(b))))

\* C12 as amended: two consecutive chunks of which the first is a full
\* window of chunk_size words share exactly chunk_overlap words, the last
\* chunk_overlap words of chunk i being the first of chunk i+1, and for
\* chunk_overlap >= 1 the last word of chunk i is among them; after a
\* chunk i shorter than chunk_size, chunk i+1 is the words of chunk i
\* beyond its first stride, fewer than chunk_overlap.
C12_FullWindowsShareOverlap ==
    fn_pc = "out" =>
        \A k \in 1..(Len(fn_out) - 1) :
            LET a == ChunkWords(k)
                b == ChunkWords(k + 1)
                ov == fn_args.chunk_overlap
                stride == fn_args.chunk_size - ov
            IN  IF Len(a) = fn_args.chunk_size
                THEN /\ ShareExactly(k, ov)
                     /\ ov >= 1 => a[Len(a)] \in WordSet(Prefix(b, ov))
                ELSE /\ Len(a) > stride
                     /\ b = Suffix(a, Len(a) - stride)
                     /\ Len(b) < ov

\* C12 witness: chunks with an overlap of 2 or more, a full window followed
\* by a chunk, and a short chunk followed by a chunk.
C12_Witness ==
    /\ fn_pc = "out"
    /\ fn_args.chunk_overlap >= 2
    /\ Len(fn_out) >= 4
    /\ Len(ChunkWords(1)) = fn_args.chunk_size
    /\ \E k \in 1..(Len(fn_out) - 1) :
          /\ Len(ChunkWords(k)) < fn_args.chunk_size
          /\ Len(ChunkWords(k + 1)) >= 1

\* C13: a document of n words gives ceil(n / stride) chunks, chunk i
\* (counted from 0) being the words at positions i*stride up to
\* min(n, i*stride + chunk_size) - 1; every chunk has between 1 and
\* chunk_size words, every word lies in a chunk, and there are zero chunks
\* only for a document with no words.
C13_ChunkCountAndWindows ==
    fn_pc = "out" =>
        LET words == Split(fn_args.text)
            n == Len(words)
            size == fn_args.chunk_size
            stride == size - fn_args.chunk_overlap
        IN  /\ stride >= 1
            /\ Len(fn_out) * stride >= n
            /\ (Len(fn_out) - 1) * stride < n \/ (n = 0 /\ Len(fn_out) = 0)
            /\ \A k \in 1..Len(fn_out) :
                  /\ ChunkWords(k) =
                        SubSeq(words, (k - 1) * stride + 1, Min(n, (k - 1) * stride + size))
                  /\ Len(ChunkWords(k)) \in 1..size
            /\ \A p \in 1..n : \E k \in 1..Len(fn_out) : words[p] \in WordSet(ChunkWords(k))
            /\ Len(fn_out) = 0 <=> n = 0

\* C13 witness: the 500-word document at size 200 and overlap 50 gives 4
\* chunks, the last one of 50 words.
C13_Witness ==
    /\ fn_pc = "out"
    /\ Len(Split(fn_args.text)) = 500
    /\ fn_args.chunk_size = 200
    /\ fn_args.chunk_overlap = 50
    /\ Len(fn_out) = 4
    /\ Len(ChunkWords(4)) = 50

\* C13 witness for the empty document: no chunk.
C13_EmptyDocument ==
    /\ fn_pc = "out"
    /\ Split(fn_args.text) = << >>
    /\ fn_args.text # << >>
    /\ fn_out = << >>

----------------------------------------------------------------------------
(* Embedding, indexing and retrieval: streamlit2.py:85-113 *)

\* A vector is a pair of integers lying on an axis, so that its L2
\* normalisation is exact: each component becomes its sign.
Sign(x) == IF x > 0 THEN 1 ELSE IF x < 0 THEN -1 ELSE 0
normalize_L2(v) == << Sign(v[1]), Sign(v[2]) >>
\* inner product, the similarity of IndexFlatIP
Dot(u, v) == u[1] * v[1] + u[2] * v[2]

\* the result of a call: a value, or an exception
Ok(v) == [raised |-> FALSE, exc |-> "", value |-> v]
Fail(e) == [raised |-> TRUE, exc |-> e, value |-> << >>]

\* a reply of the embedding endpoint: a transport error, or a status and
\* the embeddings of the "data" list
EmbedExc == [kind |-> "exc", status |-> 0, data |-> << >>]
EmbedHttp(status, data) == [kind |-> "http", status |-> status, data |-> data]

\* streamlit2.py:85-92
embed_texts(texts, resp) ==
    IF resp.kind = "exc" THEN Fail("ConnectionError")
    ELSE IF resp.status >= 400 THEN Fail("HTTPError")
    ELSE IF resp.data = << >> THEN Fail("IndexError")
    ELSE Ok([i \in 1..Len(resp.data) |-> normalize_L2(resp.data[i])])

\* the chunks and metadata of a corpus: the loops of streamlit2.py:96-100.
\* docs is the dict as the sequence of its (name, text) items; idx counts
\* from 0.
RECURSIVE CorpusChunks(_, _, _)
CorpusChunks(docs, chunk_size, chunk_overlap) ==
    IF docs = << >> THEN << >>
    ELSE LET chunks == chunk_text_words(Head(docs).text, chunk_size, chunk_overlap)
         IN  [i \in 1..Len(chunks) |->
                 [name |-> Head(docs).name, idx |-> i - 1, chunk |-> chunks[i]]]
             \o CorpusChunks(Tail(docs), chunk_size, chunk_overlap)

\* streamlit2.py:94-106
index_documents(docs, chunk_size, chunk_overlap, resp) ==
    LET cs == CorpusChunks(docs, chunk_size, chunk_overlap)
        all_chunks == [i \in 1..Len(cs) |-> cs[i].chunk]
        meta == [i \in 1..Len(cs) |-> << cs[i].name, cs[i].idx >>]
        embeddings == embed_texts(all_chunks, resp)
    IN  IF all_chunks = << >> THEN Ok(NoStore)
        ELSE IF embeddings.raised THEN embeddings
        ELSE Ok(Store(Some(embeddings.value), meta, all_chunks))

\* does index_documents call the embedding endpoint for this corpus?
index_requests(docs, chunk_size, chunk_overlap) ==
    CorpusChunks(docs, chunk_size, chunk_overlap) # << >>

\* index.search(q, k): the labels I[0] an exact inner-product search can
\* return.  The best min(k, ntotal) vectors by descending similarity, in
\* any order among equals, as 0-based labels; the places left over when
\* the index holds fewer than k vectors are filled with -1.
SearchLabels(vectors, q, k) ==
    LET ntotal == Len(vectors)
        m == IF k < ntotal THEN k ELSE ntotal
        score(l) == Dot(vectors[l + 1], q)
        best == { f \in [1..m -> 0..(ntotal - 1)] :
                    /\ \A i, j \in 1..m : i < j => f[i] # f[j] /\ score(f[i]) >= score(f[j])
                    /\ \A l \in 0..(ntotal - 1) :
                          (\A i \in 1..m : f[i] # l) => \A i \in 1..m : score(f[i]) >= score(l) }
    IN  { [i \in 1..k |-> IF i <= m THEN f[i] ELSE -1] : f \in best }

\* seq[i] of Python for a 0-based, possibly negative i: is it in range, and
\* which 1-based position it reads
InRange(seq, i) == -Len(seq) <= i /\ i < Len(seq)
At(seq, i) == IF i >= 0 THEN seq[i + 1] ELSE seq[Len(seq) + i + 1]

\* streamlit2.py:113, for the labels I0 of the search
PairsOf(meta, chunks, I0) ==
    IF \A n \in 1..Len(I0) : InRange(meta, I0[n]) /\ InRange(chunks, I0[n])
    THEN Ok([n \in 1..Len(I0) |-> << At(meta, I0[n])[1], At(chunks, I0[n]) >>])
    ELSE Fail("IndexError")

\* streamlit2.py:108-113: the results retrieve_chunks can give for a built
\* or unbuilt store and the reply resp to the query's embedding request
retrieve_chunks(query, store, k, resp) ==
    IF store.index = None THEN { Ok(<< >>) }
    ELSE LET q == embed_texts(<< query >>, resp)
         IN  IF q.raised THEN { q }
             ELSE { PairsOf(store.meta, store.chunks, I0) :
                       I0 \in SearchLabels(store.index[1], q.value[1], k) }

----------------------------------------------------------------------------
(* Risk extraction: streamlit2.py:28-45 and 143-183.  The texts of this     *)
(* section are spelled letter by letter, one token per character, so that  *)
(* a substring test looks inside words.                                    *)

HIGH == << "H", "i", "g", "h" >>
LOW == << "L", "o", "w" >>
YES == << "Y", "e", "s" >>
NO == << "N", "o" >>
SR == << "S", "R" >>
NO_SR == << "N", "o", " ", "S", "R" >>
NOT_PROVIDED == << "N", "o", "t", " ", "p", "r", "o", "v", "i", "d", "e", "d" >>

\* a JSON value as item.get hands it over: a string, a number, null, or
\* the key missing from the object; v spells the string or the number
JStr(v) == [t |-> "str", v |-> v]
JNum(v) == [t |-> "num", v |-> v]
JNull == [t |-> "null", v |-> << >>]
JMissing == [t |-> "missing", v |-> << >>]

\* item.get(key) and item.get(key, default) as a Python value: None for a
\* missing key without default and for null
Get(item, key) == IF item.f[key].t = "missing" THEN JNull ELSE item.f[key]
GetOr(item, key, default) ==
    IF item.f[key].t = "missing" THEN JStr(default) ELSE item.f[key]

\* Python truthiness of a JSON value
JTruthy(x) ==
    CASE x.t = "str" -> x.v # << >>
      [] x.t = "num" -> x.v # << "0" >>
      [] OTHER -> FALSE

\* streamlit2.py:143-147
_coerce_high_low_exact(value) ==
    IF ~JTruthy(value) THEN Ok(LOW)
    ELSE IF value.t # "str" THEN Fail("AttributeError")
    ELSE Ok(IF LowerText(Strip(value.v)) = LowerText(HIGH) THEN HIGH ELSE LOW)
_coerce_high_low(value) ==
    IF ~JTruthy(value) THEN Ok(LOW)
    ELSE IF value.t # "str" THEN Fail("AttributeError")
    ELSE Ok(IF Contains(LowerText(Strip(value.v)), LowerText(HIGH)) THEN HIGH ELSE LOW)

\* streamlit2.py:149-153
_coerce_yes_no(value) ==
    IF ~JTruthy(value) THEN Ok(NO)
    ELSE IF value.t # "str" THEN Fail("AttributeError")
    ELSE Ok(IF Contains(LowerText(Strip(value.v)), LowerText(YES)) THEN YES ELSE NO)

\* the keys parse_risks_response reads from an item, and "SR?" of the schema
RiskKeys ==
    { "risk_type", "Fraud Risk Factor?", "Internal Controls", "Likelihood",
      "Likelihood Explanation", "Material Quantitative Impact?",
      "Impact Explanation", "Conclusion", "SR?" }

\* streamlit2.py:168-178; a field whose coercion raised holds the failure
Mapped(item) ==
    [risk_type |-> Get(item, "risk_type"),
     Fraud_Risk_Factor |-> _coerce_yes_no(Get(item, "Fraud Risk Factor?")),
     Internal_Controls |-> GetOr(item, "Internal Controls", NOT_PROVIDED),
     Likelihood |-> _coerce_high_low(Get(item, "Likelihood")),
     Likelihood_Explanation |-> GetOr(item, "Likelihood Explanation", NOT_PROVIDED),
     Material_Quantitative_Impact |-> _coerce_high_low(Get(item, "Material Quantitative Impact?")),
     Impact_Explanation |-> GetOr(item, "Impact Explanation", NOT_PROVIDED),
     Conclusion |-> GetOr(item, "Conclusion", NOT_PROVIDED),
     SR |-> NO_SR]

\* the field validation of InherentRisk (streamlit2.py:29-37): the five
\* free fields are strings, the coerced ones match their patterns
Validates(m) ==
    /\ m.risk_type.t = "str"
    /\ m.Internal_Controls.t = "str"
    /\ m.Likelihood_Explanation.t = "str"
    /\ m.Impact_Explanation.t = "str"
    /\ m.Conclusion.t = "str"
    /\ m.Fraud_Risk_Factor.value \in {YES, NO}
    /\ m.Likelihood.value \in {HIGH, LOW}
    /\ m.Material_Quantitative_Impact.value \in {HIGH, LOW}
    /\ m.SR \in {SR, NO_SR}

\* streamlit2.py:39-45 with the SR of the input kept
coerce_significant_risk_keep(likelihood, impact, sr) == sr
\* streamlit2.py:39-45
coerce_significant_risk(likelihood, impact, sr) ==
    IF likelihood = HIGH /\ impact = HIGH THEN SR ELSE NO_SR

\* InherentRisk(**mapped) for a mapping that validates
InherentRisk(m) ==
    [risk_type |-> m.risk_type.v,
     Fraud_Risk_Factor |-> m.Fraud_Risk_Factor.value,
     Internal_Controls |-> m.Internal_Controls.v,
     Likelihood |-> m.Likelihood.value,
     Likelihood_Explanation |-> m.Likelihood_Explanation.v,
     Material_Quantitative_Impact |-> m.Material_Quantitative_Impact.value,
     Impact_Explanation |-> m.Impact_Explanation.v,
     Conclusion |-> m.Conclusion.v,
     SR |-> coerce_significant_risk(m.Likelihood.value,
                                    m.Material_Quantitative_Impact.value, m.SR)]

\* an element of the array: an object with its fields, or another value
JObject(f) == [kind |-> "object", f |-> f]
JOther == [kind |-> "other", f |-> [k \in RiskKeys |-> JMissing]]

RECURSIVE RisksLoop(_)
\* the loop of streamlit2.py:167-182 over the elements left
RisksLoop(data) ==
    IF data = << >> THEN Ok(<< >>)
    ELSE LET item == Head(data)
             m == Mapped(item)
             rest == RisksLoop(Tail(data))
         IN  IF item.kind # "object" THEN Fail("AttributeError")
             ELSE IF m.Fraud_Risk_Factor.raised \/ m.Likelihood.raised
                     \/ m.Material_Quantitative_Impact.raised
                  THEN Fail("AttributeError")
             ELSE IF rest.raised THEN rest
             ELSE IF Validates(m) THEN Ok(<< InherentRisk(m) >> \o rest.value)
             ELSE rest

\* The reply of the model: what stands before and after the JSON text, and
\* the JSON text as the value it denotes ("invalid" when it denotes none).
Raw(before, json, after) == [before |-> before, json |-> json, after |-> after]
JInvalid == [kind |-> "invalid", items |-> << >>]
JArray(items) == [kind |-> "array", items |-> items]
JNotArray == [kind |-> "object", items |-> << >>]

\* the fence of a code block, bare or tagged json
FENCE == "[fence]"
FENCE_JSON == "[fence]json"

\* streamlit2.py:156-159: the text between the fences of a fenced reply
Unfenced(raw) ==
    IF raw.before \in {FENCE, FENCE_JSON} /\ raw.after = FENCE
    THEN Raw("", raw.json, "")
    ELSE raw

\* streamlit2.py:155-183
parse_risks_response(raw) ==
    LET text == Unfenced(raw)
    IN  IF text.before # "" \/ text.after # "" \/ text.json.kind = "invalid"
        THEN Fail("ValueError")
        ELSE IF text.json.kind # "array" THEN Fail("ValueError")
        ELSE RisksLoop(text.json.items)

----------------------------------------------------------------------------
(* The coercions and parse_risks_response called on their own *)

\* the values the coercions are applied to: a word, alone or inside a
\* phrase, in several letter cases; the empty text; a missing value
CoerceCores ==
    { << "H", "i", "g", "h" >>,
      << "H", "I", "G", "H" >>,
      << "h", "i", "g", "h" >>,
      << "h", "I", "g", "H" >>,
      << "H", "i", "g", "h", "l", "y" >>,
      << "L", "o", "w" >>,
      << "l", "o", "w" >>,
      << "h", "i", " ", "g", "h" >>,
      << "Y", "e", "s" >>,
      << "Y", "E", "S" >>,
      << "y", "e", "s" >>,
      << "e", "y", "e", "s" >>,
      << "N", "o" >>,
      << "n", "o" >>,
      << "N", "O" >>,
      << "m", "a", "y", "b", "e" >>,
      << "Y", "e", "s", " ", "o", "r", " ", "N", "o" >>,
      << "n", "o", ",", " ", "y", "e", "s" >> }
CoerceBefore ==
    { << >>,
      << " " >>,
      << "s", "o", "m", "e", "w", "h", "a", "t", " " >>,
      << "n", "o", "t", " " >> }
CoerceAfter ==
    { << >>,
      << " " >>,
      << " ", "l", "i", "k", "e", "l", "i", "h", "o", "o", "d" >>,
      << "!" >> }
CoerceValues ==
    { JStr(b \o c \o a) : b \in CoerceBefore, c \in CoerceCores, a \in CoerceAfter }
    \cup { JStr(<< >>), JStr(<< " " >>), JNull }
CoerceArgs == { [fn |-> f, value |-> v] : f \in {"high_low", "yes_no"}, v \in CoerceValues }

InitCoerce ==
    /\ HomeIdle
    /\ fn_pc = "in"
    /\ fn_args \in CoerceArgs
    /\ fn_out = << >>

\* streamlit2.py:170 and 172
CallCoerce ==
    /\ fn_pc = "in"
    /\ fn_out' = IF fn_args.fn = "high_low" THEN _coerce_high_low(fn_args.value)
                 ELSE _coerce_yes_no(fn_args.value)
    /\ fn_pc' = "out"
    /\ UNCHANGED << envVars, sessionVars, callVars, pfVars, fn_args, auditVars, siteVars >>

NextCoerce == CallCoerce

SpecCoerce == InitCoerce /\ [][NextCoerce]_vars

\* the text v holds the letters of word, in any case, at position i
LettersAt(v, i, lower, upper) ==
    /\ i + Len(lower) - 1 <= Len(v)
    /\ \A j \in 1..Len(lower) : v[i + j - 1] \in {lower[j], upper[j]}
HasHigh(x) ==
    x.t = "str" /\ \E i \in 1..Len(x.v) :
        LettersAt(x.v, i, << "h", "i", "g", "h" >>, << "H", "I", "G", "H" >>)
HasYes(x) ==
    x.t = "str" /\ \E i \in 1..Len(x.v) :
        LettersAt(x.v, i, << "y", "e", "s" >>, << "Y", "E", "S" >>)
HasNo(x) ==
    x.t = "str" /\ \E i \in 1..Len(x.v) :
        LettersAt(x.v, i, << "n", "o" >>, << "N", "O" >>)

\* _coerce_high_low gives "High" exactly for a value holding "high" in any
\* letter case and "Low" otherwise, a missing value included
HighLowAsClaimed ==
    fn_args.fn = "high_low" =>
        fn_out = Ok(IF HasHigh(fn_args.value) THEN HIGH ELSE LOW)

\* C18 as claimed: the coercions are total over texts; _coerce_high_low is
\* "High" exactly for a value holding "high" in any case, else "Low";
\* _coerce_yes_no is "Yes" for a value holding "yes", "No" for a value
\* holding "no", and "No" for a missing or ambiguous value.
C18_CoercionBySubstring ==
    fn_pc = "out" =>
        /\ ~fn_out.raised
        /\ HighLowAsClaimed
        /\ fn_args.fn = "yes_no" =>
              LET yes == HasYes(fn_args.value)
                  no == HasNo(fn_args.value)
              IN  /\ (yes /\ ~no) => fn_out.value = YES
                  /\ (no /\ ~yes) => fn_out.value = NO
                  /\ (yes <=> no) => fn_out.value = NO

\* C18 as amended: the coercions are total over texts; _coerce_high_low is
\* "High" exactly for a value holding "high" in any case, else "Low";
\* _coerce_yes_no is "Yes" exactly for a value holding "yes" in any case,
\* whether or not it holds "no" as well, and "No" otherwise, a missing
\* value included.
C18_CoercionByYesAndHigh ==
    fn_pc = "out" =>
        /\ ~fn_out.raised
        /\ HighLowAsClaimed
        /\ fn_args.fn = "yes_no" =>
              fn_out.value = IF HasYes(fn_args.value) THEN YES ELSE NO

\* C18 witness: "High likelihood" has given "High".
C18_Witness ==
    /\ fn_pc = "out"
    /\ fn_args = [fn |-> "high_low", value |-> JStr(<< "H", "i", "g", "h", " ", "l", "i", "k", "e", "l", "i", "h", "o", "o", "d" >>)]
    /\ fn_out = Ok(HIGH)

\* C18 witness for the other examples: "somewhat low" gives "Low".
C18_SomewhatLow ==
    /\ fn_pc = "out"
    /\ fn_args = [fn |-> "high_low", value |-> JStr(<< "s", "o", "m", "e", "w", "h", "a", "t", " ", "l", "o", "w" >>)]
    /\ fn_out = Ok(LOW)

\* C18 witness for a value holding both words: "Yes or No" gives "Yes".
C18_YesOrNo ==
    /\ fn_pc = "out"
    /\ fn_args = [fn |-> "yes_no", value |-> JStr(<< "Y", "e", "s", " ", "o", "r", " ", "N", "o" >>)]
    /\ fn_out = Ok(YES)

\* the elements of the arrays parse_risks_response is applied to
T_FRAUD == << "F", "r", "a", "u", "d" >>
T_TEXT == << "t", "e", "x", "t" >>
FullItem(likelihood, impact, sr) ==
    JObject([k \in RiskKeys |->
        CASE k = "risk_type" -> JStr(T_FRAUD)
          [] k = "Fraud Risk Factor?" -> JStr(YES)
          [] k = "Likelihood" -> likelihood
          [] k = "Material Quantitative Impact?" -> impact
          [] k = "SR?" -> sr
          [] OTHER -> JStr(T_TEXT)])
With(item, key, value) == JObject([item.f EXCEPT ![key] = value])

ITEM_HIGH_HIGH == FullItem(JStr(HIGH), JStr(<< "H", "I", "G", "H", " ", "i", "m", "p", "a", "c", "t" >>), JStr(NO_SR))
ITEM_LOW_HIGH == FullItem(JStr(LOW), JStr(HIGH), JStr(SR))
ITEM_DEFAULTS ==
    JObject([k \in RiskKeys |->
        IF k = "risk_type" THEN JStr(T_TEXT)
        ELSE IF k = "Likelihood" THEN JNull
        ELSE JMissing])
ITEM_NO_TYPE == With(ITEM_HIGH_HIGH, "risk_type", JMissing)
ITEM_TYPE_NUMBER == With(ITEM_LOW_HIGH, "risk_type", JNum(<< "7" >>))
ITEM_NULL_TEXT == With(ITEM_HIGH_HIGH, "Conclusion", JNull)
ITEM_NUMBER_LEVEL == With(ITEM_LOW_HIGH, "Likelihood", JNum(<< "3" >>))
ITEM_ZERO_LEVEL == With(ITEM_LOW_HIGH, "Likelihood", JNum(<< "0" >>))

RiskItems ==
    { ITEM_HIGH_HIGH, ITEM_LOW_HIGH, ITEM_DEFAULTS, ITEM_NO_TYPE, ITEM_TYPE_NUMBER,
      ITEM_NULL_TEXT, ITEM_NUMBER_LEVEL, ITEM_ZERO_LEVEL, JOther }

MaxItems == 3
RiskArrays == UNION { [1..n -> RiskItems] : n \in 0..MaxItems }
RiskRaws ==
    { Raw(b, JArray(items), a) :
        b \in {"", FENCE, FENCE_JSON, "Here are the risks:"}, a \in {"", FENCE},
        items \in RiskArrays }
    \cup { Raw("", JInvalid, ""), Raw(FENCE_JSON, JInvalid, FENCE),
           Raw("", JNotArray, ""), Raw(FENCE, JNotArray, FENCE) }

InitRisks ==
    /\ HomeIdle
    /\ fn_pc = "in"
    /\ fn_args \in RiskRaws
    /\ fn_out = << >>

\* streamlit2.py:342
CallParseRisks ==
    /\ fn_pc = "in"
    /\ fn_out' = parse_risks_response(fn_args)
    /\ fn_pc' = "out"
    /\ UNCHANGED << envVars, sessionVars, callVars, pfVars, fn_args, auditVars, siteVars >>

NextRisks == CallParseRisks

SpecRisks == InitRisks /\ [][NextRisks]_vars

\* C16: in every record parse_risks_response returns, SR is "SR" exactly
\* when Likelihood and Material_Quantitative_Impact are both "High" and
\* "No SR" otherwise, whatever the model gave for the SR field.
C16_SignificantRiskDerived ==
    (fn_pc = "out" /\ ~fn_out.raised) =>
        \A i \in 1..Len(fn_out.value) :
            LET r == fn_out.value[i]
            IN  r.SR = IF r.Likelihood = HIGH /\ r.Material_Quantitative_Impact = HIGH
                       THEN SR ELSE NO_SR

\* C16 witness: a record with SR "SR" from an item the model marked
\* "No SR", next to a record with SR "No SR" from an item it marked "SR".
C16_Witness ==
    /\ fn_pc = "out"
    /\ ~fn_out.raised
    /\ fn_args.json.items = << ITEM_HIGH_HIGH, ITEM_LOW_HIGH >>
    /\ Len(fn_out.value) = 2
    /\ fn_out.value[1].SR = SR
    /\ fn_out.value[2].SR = NO_SR

\* does the reply denote a JSON array, fences taken off
IsJsonArray(raw) ==
    LET text == Unfenced(raw)
    IN  text.before = "" /\ text.after = "" /\ text.json.kind = "array"

\* can the element form a valid record: an object whose risk_type is a
\* string, whose free-text fields are strings or missing, and whose
\* coerced fields are strings or count as missing (null, 0)
IsText(x) == x.t = "str"
CanFormRecord(item) ==
    /\ item.kind = "object"
    /\ IsText(item.f["risk_type"])
    /\ \A k \in {"Internal Controls", "Likelihood Explanation", "Impact Explanation",
                 "Conclusion"} : item.f[k].t \in {"str", "missing"}
    /\ \A k \in {"Fraud Risk Factor?", "Likelihood", "Material Quantitative Impact?"} :
          item.f[k].t = "str" \/ ~JTruthy(Get(item, k))

\* C17: for a reply that is a JSON array, parse_risks_response returns the
\* valid records in input order and skips every element that cannot form
\* one; no malformed element makes the call fail or drops the others.
C17_MalformedElementsSkipped ==
    (fn_pc = "out" /\ IsJsonArray(fn_args)) =>
        LET good == SelectSeq(Unfenced(fn_args).json.items, CanFormRecord)
        IN  /\ ~fn_out.raised
            /\ fn_out.value = [i \in 1..Len(good) |-> InherentRisk(Mapped(good[i]))]

\* C17 restricted to arrays of objects whose coerced fields hold no
\* number: the elements that fail validation are skipped, in order.
C17_InvalidObjectsSkipped ==
    (fn_pc = "out" /\ IsJsonArray(fn_args)
       /\ \A i \in 1..Len(fn_args.json.items) :
             fn_args.json.items[i] \notin {JOther, ITEM_NUMBER_LEVEL}) =>
        LET good == SelectSeq(Unfenced(fn_args).json.items, CanFormRecord)
        IN  /\ ~fn_out.raised
            /\ fn_out.value = [i \in 1..Len(good) |-> InherentRisk(Mapped(good[i]))]

----------------------------------------------------------------------------
(* The pipeline run of render: streamlit2.py:246-398 *)

\* re.sub(r'\s+', ' ', text).strip() of clean_text (streamlit2.py:59-62)
clean_text(text) == JoinSpace(Split(text))

RECURSIVE DictOf(_)
\* {f.name: load_main_body(f) for f in files}: the items of the dict in
\* insertion order, a repeated name keeping its place and the later text
DictOf(files) ==
    IF files = << >> THEN << >>
    ELSE LET before == DictOf(SubSeq(files, 1, Len(files) - 1))
             f == files[Len(files)]
             item == [name |-> f.name, text |-> clean_text(f.text)]
         IN  IF \E i \in 1..Len(before) : before[i].name = f.name
             THEN [i \in 1..Len(before) |->
                      IF before[i].name = f.name THEN item ELSE before[i]]
             ELSE Append(before, item)

\* a row of sheet "1300": its "#" cell (NaN for a heading row), its
\* question, its "Best practice answer" cell (empty when the row has
\* none) and the answer columns of streamlit2.py:310
NAN == "nan"
Row(num, question, example) ==
    [num |-> num, Question |-> question, example |-> example,
     answer |-> << >>, sources |-> << >>, answered |-> FALSE]

\* the loop starting over from the first row
NextQuestion_from_start(rows, i) ==
    IF \E j \in 1..Len(rows) : rows[j].num # NAN
    THEN CHOOSE j \in 1..Len(rows) :
            rows[j].num # NAN /\ \A x \in 1..(j - 1) : rows[x].num = NAN
    ELSE Len(rows) + 1
\* the first row at or after position i that the loop does not skip
\* (streamlit2.py:312-313), Len(rows) + 1 when there is none
NextQuestion(rows, i) ==
    IF \E j \in i..Len(rows) : rows[j].num # NAN
    THEN CHOOSE j \in i..Len(rows) :
            rows[j].num # NAN /\ \A x \in i..(j - 1) : rows[x].num = NAN
    ELSE Len(rows) + 1

\* a request on the wire; for a chat-completions request, user is the
\* user message and ctx the context its system message carries
Request(to, stage, at, shape, n, reply) ==
    [to |-> to, stage |-> stage, row |-> at, shape |-> shape, n |-> n,
     user |-> << >>, ctx |-> << >>, reply |-> reply]

\* an exception leaves render: the run is over
Abort(stage, exc) ==
    /\ a_pc' = "failed"
    /\ a_exc' = [stage |-> stage, exc |-> exc]

\* the reply of the chat-completions endpoint: a transport error, or a
\* status and the content of choices[0].message (None when the body has
\* no such member)
LlmExc == [kind |-> "exc", status |-> 0, content |-> None]
LlmHttp(status, content) == [kind |-> "http", status |-> status, content |-> content]

\* the marker "\n[1]" that opens the list of sources: a line break and
\* the token "[1]" right after it
SOURCES_MARK == << "\n", "[1]" >>
\* str.find(SOURCES_MARK) as a position from 1, 0 when there is none
MarkAt(t) ==
    IF Contains(t, SOURCES_MARK)
    THEN CHOOSE i \in 1..(Len(t) - 1) :
            /\ SubSeq(t, i, i + 1) = SOURCES_MARK
            /\ \A j \in 1..(i - 1) : SubSeq(t, j, j + 1) # SOURCES_MARK
    ELSE 0

\* streamlit2.py:115-141, for the reply resp to its one POST
audit_llm_response(resp) ==
    IF resp.kind = "exc" THEN Fail("ConnectionError")
    ELSE IF resp.status >= 400 THEN Fail("HTTPError")
    ELSE IF resp.content = None THEN Fail("KeyError")
    ELSE LET response_text == Strip(resp.content[1])
             split_index == MarkAt(response_text)
         IN  IF split_index # 0
             THEN Ok([main_answer |-> Strip(SubSeq(response_text, 1, split_index - 1)),
                      sources |-> Strip(SubSeq(response_text, split_index, Len(response_text)))])
             ELSE Ok([main_answer |-> response_text, sources |-> << >>])

\* streamlit2.py:185-214, for the reply resp to its one POST; the content
\* is the reply text parse_risks_response reads
get_structure_llm_response(resp) ==
    IF resp.kind = "exc" THEN Fail("ConnectionError")
    ELSE IF resp.status >= 400 THEN Fail("HTTPError")
    ELSE IF resp.content = None THEN Fail("KeyError")
    ELSE Ok(resp.content[1])

PipelineRan == session_state["pipeline_ran"] = Some(TRUE)

\* The "Run Retrieval & Generate Answers" button (streamlit2.py:246 and
\* 270-303): the sheet is read and the run begins.
RunPipeline(rows) ==
    /\ a_pc = "idle"
    /\ ~PipelineRan
    /\ session_state' = setdefault(session_state, "pipeline_ran", FALSE)
    /\ ss_before' = session_state'
    /\ df1' = rows
    /\ a_pc' = "ingest"
    /\ wire' = << >>
    /\ a_exc' = NoException
    /\ UNCHANGED << homeVars, auditInputs, pub_docs, cli_docs, pub, cli, row,
                    hits_pub, hits_cli, risks_raw, risks_list >>

\* streamlit2.py:305-306: every upload is read; a file pdfplumber cannot
\* open raises
Ingest ==
    /\ a_pc = "ingest"
    /\ LET files == uploads.public_files \o uploads.client_files
       IN  IF \E i \in 1..Len(files) : ~files[i].readable
           THEN /\ Abort("ingest", "PDFSyntaxError")
                /\ UNCHANGED << pub_docs, cli_docs >>
           ELSE /\ pub_docs' = DictOf(uploads.public_files)
                /\ cli_docs' = DictOf(uploads.client_files)
                /\ a_pc' = "index_pub"
                /\ UNCHANGED a_exc
    /\ UNCHANGED << homeVars, session_state, auditInputs, pub, cli, df1, row,
                    hits_pub, hits_cli, risks_raw, risks_list, wire, ss_before >>

\* the request index_documents makes for a corpus, if it makes one
IndexWire(stage, docs, resp) ==
    IF index_requests(docs, settings.chunk_size, settings.chunk_overlap)
    THEN << Request("embed", stage, 0, "input",
                    Len(CorpusChunks(docs, settings.chunk_size, settings.chunk_overlap)),
                    resp) >>
    ELSE << >>

\* streamlit2.py:307
IndexPublic(resp) ==
    /\ a_pc = "index_pub"
    /\ LET r == index_documents(pub_docs, settings.chunk_size, settings.chunk_overlap, resp)
       IN  /\ wire' = wire \o IndexWire("index_pub", pub_docs, resp)
           /\ IF r.raised
              THEN Abort("index_pub", r.exc) /\ UNCHANGED pub
              ELSE pub' = r.value /\ a_pc' = "index_cli" /\ UNCHANGED a_exc
    /\ UNCHANGED << homeVars, session_state, auditInputs, pub_docs, cli_docs, cli,
                    df1, row, hits_pub, hits_cli, risks_raw, risks_list, ss_before >>

\* streamlit2.py:308-311: the client corpus is indexed and the loop over
\* the rows begins
IndexClient(resp) ==
    /\ a_pc = "index_cli"
    /\ LET r == index_documents(cli_docs, settings.chunk_size, settings.chunk_overlap, resp)
           first == NextQuestion(df1, 1)
       IN  /\ wire' = wire \o IndexWire("index_cli", cli_docs, resp)
           /\ IF r.raised
              THEN Abort("index_cli", r.exc) /\ UNCHANGED << cli, row >>
              ELSE /\ cli' = r.value
                   /\ row' = first
                   /\ a_pc' = IF first > Len(df1) THEN "risks" ELSE "retrieve_pub"
                   /\ UNCHANGED a_exc
    /\ UNCHANGED << homeVars, session_state, auditInputs, pub_docs, cli_docs, pub,
                    df1, hits_pub, hits_cli, risks_raw, risks_list, ss_before >>

\* the request retrieve_chunks makes for a store, if it makes one
RetrieveWire(stage, store, resp) ==
    IF store.index = None THEN << >>
    ELSE << Request("embed", stage, row, "input", 1, resp) >>

\* streamlit2.py:317
RetrievePublic(resp) ==
    /\ a_pc = "retrieve_pub"
    /\ \E r \in retrieve_chunks(df1[row].Question, pub, settings.top_k, resp) :
          /\ wire' = wire \o RetrieveWire("retrieve_pub", pub, resp)
          /\ IF r.raised
             THEN Abort("retrieve_pub", r.exc) /\ UNCHANGED hits_pub
             ELSE hits_pub' = r.value /\ a_pc' = "retrieve_cli" /\ UNCHANGED a_exc
    /\ UNCHANGED << homeVars, session_state, auditInputs, pub_docs, cli_docs, pub, cli,
                    df1, row, hits_cli, risks_raw, risks_list, ss_before >>

\* streamlit2.py:318
RetrieveClient(resp) ==
    /\ a_pc = "retrieve_cli"
    /\ \E r \in retrieve_chunks(df1[row].Question, cli, settings.top_k, resp) :
          /\ wire' = wire \o RetrieveWire("retrieve_cli", cli, resp)
          /\ IF r.raised
             THEN Abort("retrieve_cli", r.exc) /\ UNCHANGED hits_cli
             ELSE hits_cli' = r.value /\ a_pc' = "answer" /\ UNCHANGED a_exc
    /\ UNCHANGED << homeVars, session_state, auditInputs, pub_docs, cli_docs, pub, cli,
                    df1, row, hits_pub, risks_raw, risks_list, ss_before >>

\* f"[{s}] {t}" for the hits of a retrieval, one text per hit
Tagged(hits) ==
    [n \in 1..Len(hits) |-> << "[", hits[n][1], "]", " " >> \o hits[n][2]]

\* streamlit2.py:319-322: the context of a row.  Line 321 is a plain
\* string literal, so its braces reach the context as written.
row_context(hits_p, hits_c, question, example) ==
    << "PUBLIC CONTEXT:", "\n" >> \o Join(<< "\n" >>, Tagged(hits_p))
    \o << "\n", "\n", "CLIENT CONTEXT:", "\n" >> \o Join(<< "\n" >>, Tagged(hits_c))
    \o << "\n", "\n", "FORMAT EXAMPLE:", "\n", " ", "Q:", " ", "{prompt}",
          "\n", " ", "A:", " ", "{example}" >>
    \o << "\n", "DO NOT RESPOND WITH MARKDOWN" >>

\* streamlit2.py:126-130: the request get_llm_response posts
AnswerRequest(at, question, context, resp) ==
    [Request("llm", "answer", at, "messages", 1, resp) EXCEPT
        !.user = question, !.ctx = context]

\* streamlit2.py:314-329: the question of the row is answered and the loop
\* moves to the next row it does not skip
Answer(resp) ==
    /\ a_pc = "answer"
    /\ LET question == df1[row].Question
           example == df1[row].example
           ctx == row_context(hits_pub, hits_cli, question, example)
           r == audit_llm_response(resp)
           next == NextQuestion(df1, row + 1)
       IN  /\ wire' = Append(wire, AnswerRequest(row, question, ctx, resp))
           /\ IF r.raised
              THEN Abort("answer", r.exc) /\ UNCHANGED << df1, row >>
              ELSE /\ df1' = [df1 EXCEPT ![row].answer = r.value.main_answer,
                                         ![row].sources = r.value.sources,
                                         ![row].answered = TRUE]
                   /\ row' = next
                   /\ a_pc' = IF next > Len(df1) THEN "risks" ELSE "retrieve_pub"
                   /\ UNCHANGED a_exc
    /\ UNCHANGED << homeVars, session_state, auditInputs, pub_docs, cli_docs, pub, cli,
                    hits_pub, hits_cli, risks_raw, risks_list, ss_before >>

\* streamlit2.py:331-341
ExtractRisks(resp) ==
    /\ a_pc = "risks"
    /\ LET r == get_structure_llm_response(resp)
       IN  /\ wire' = Append(wire, Request("llm", "risks", 0, "messages", 1, resp))
           /\ IF r.raised
              THEN Abort("risks", r.exc) /\ UNCHANGED risks_raw
              ELSE risks_raw' = Some(r.value) /\ a_pc' = "parse" /\ UNCHANGED a_exc
    /\ UNCHANGED << homeVars, session_state, auditInputs, pub_docs, cli_docs, pub, cli,
                    df1, row, hits_pub, hits_cli, risks_list, ss_before >>

\* streamlit2.py:342
ParseRisks ==
    /\ a_pc = "parse"
    /\ LET r == parse_risks_response(risks_raw[1])
       IN  IF r.raised
           THEN Abort("parse", r.exc) /\ UNCHANGED risks_list
           ELSE risks_list' = r.value /\ a_pc' = "write" /\ UNCHANGED a_exc
    /\ UNCHANGED << homeVars, session_state, auditInputs, pub_docs, cli_docs, pub, cli,
                    df1, row, hits_pub, hits_cli, risks_raw, wire, ss_before >>

\* what a workbook download holds: the answered rows, and the risk records
Workbook1(rows) == [sheet |-> "1300", rows |-> rows]
Workbook2(risks) == [sheet |-> "Memo", rows |-> risks]

\* streamlit2.py:344-398 with the first workbook stored as soon as it is
\* written
WriteWorkbooks_first_stored(ok) ==
    /\ a_pc = "write"
    /\ IF ok
       THEN /\ session_state' = [session_state EXCEPT
                                    !["out1"] = Some([sheet |-> "1300", rows |-> df1]),
                                    !["out2"] = Some([sheet |-> "Memo", rows |-> risks_list]),
                                    !["pipeline_ran"] = Some(TRUE)]
            /\ a_pc' = "done"
            /\ UNCHANGED a_exc
       ELSE /\ Abort("write", "InvalidFileException")
            /\ session_state' = [session_state EXCEPT
                                    !["out1"] = Some([sheet |-> "1300", rows |-> df1])]
    /\ UNCHANGED << homeVars, auditInputs, auditLocals, wire, ss_before >>
\* streamlit2.py:344-398 with pipeline_ran set before the workbooks are
\* written
WriteWorkbooks_flag_first(ok) ==
    /\ a_pc = "write"
    /\ IF ok
       THEN /\ session_state' = [session_state EXCEPT
                                    !["out1"] = Some([sheet |-> "1300", rows |-> df1]),
                                    !["out2"] = Some([sheet |-> "Memo", rows |-> risks_list]),
                                    !["pipeline_ran"] = Some(TRUE)]
            /\ a_pc' = "done"
            /\ UNCHANGED a_exc
       ELSE /\ Abort("write", "InvalidFileException")
            /\ session_state' = [session_state EXCEPT !["pipeline_ran"] = Some(TRUE)]
    /\ UNCHANGED << homeVars, auditInputs, auditLocals, wire, ss_before >>
\* streamlit2.py:344-398: both workbooks are written, then stored with
\* pipeline_ran; openpyxl failing on a workbook raises before any is stored
WriteWorkbooks(ok) ==
    /\ a_pc = "write"
    /\ IF ok
       THEN /\ session_state' = [session_state EXCEPT
                                    !["out1"] = Some(Workbook1(df1)),
                                    !["out2"] = Some(Workbook2(risks_list)),
                                    !["pipeline_ran"] = Some(TRUE)]
            /\ a_pc' = "done"
            /\ UNCHANGED a_exc
       ELSE /\ Abort("write", "InvalidFileException")
            /\ UNCHANGED session_state
    /\ UNCHANGED << homeVars, auditInputs, auditLocals, wire, ss_before >>

\* the script run is over, with the results or with the error on the
\* page: the locals of render are gone
EndRun ==
    /\ a_pc \in {"done", "failed"}
    /\ a_pc' = "idle"
    /\ pub_docs' = << >>
    /\ cli_docs' = << >>
    /\ pub' = NoStore
    /\ cli' = NoStore
    /\ df1' = << >>
    /\ row' = 0
    /\ hits_pub' = << >>
    /\ hits_cli' = << >>
    /\ risks_raw' = << >>
    /\ risks_list' = << >>
    /\ a_exc' = NoException
    /\ wire' = << >>
    /\ UNCHANGED << homeVars, session_state, auditInputs, ss_before >>

\* The "Clear Results and Rerun Retrieval" button (streamlit2.py:263-266)
ClearResults ==
    /\ a_pc = "idle"
    /\ PipelineRan
    /\ session_state' = [session_state EXCEPT
                            !["pipeline_ran"] = Some(FALSE),
                            !["out1"] = None,
                            !["out2"] = None]
    /\ UNCHANGED << homeVars, auditVars >>

\* the inputs of the pipeline runs
MaxTopK == 2
MaxVectors == 4
AuditSettings ==
    { [chunk_size |-> 2, chunk_overlap |-> 1, top_k |-> k] : k \in 1..MaxTopK }

FILE_A == [name |-> "a.pdf", text |-> RaggedDoc(3), readable |-> TRUE]
FILE_B == [name |-> "b.pdf", text |-> CleanDoc(1), readable |-> TRUE]
FILE_EMPTY == [name |-> "e.pdf", text |-> << " " >>, readable |-> TRUE]
FILE_BAD == [name |-> "x.pdf", text |-> << >>, readable |-> FALSE]
AuditUploads ==
    { [public_files |-> p, client_files |-> c] :
        p \in { << >>, << FILE_A >> },
        c \in { << >>, << FILE_B, FILE_EMPTY >>, << FILE_BAD >> } }

SheetRows ==
    { << Row("1", << "q1" >>, << "Yes,", " ", "IFRS" >>), Row(NAN, << >>, << >>),
         Row("2", << "q2" >>, << >>) >>,
      << Row(NAN, << >>, << >>) >> }

\* the replies of the embedding endpoint: m embeddings, whatever was asked
BaseVectors == << << 2, 0 >>, << 0, 1 >>, << -3, 0 >> >>
Vectors(m) == [i \in 1..m |-> BaseVectors[((i - 1) % 3) + 1]]
EmbedReplies ==
    { EmbedExc, EmbedHttp(500, << >>) } \cup { EmbedHttp(200, Vectors(m)) : m \in 0..MaxVectors }
QueryReplies ==
    { EmbedExc, EmbedHttp(200, << << 5, 0 >> >>), EmbedHttp(200, << << 0, -1 >> >>) }

LlmReplies ==
    { LlmExc, LlmHttp(500, None), LlmHttp(200, None),
      LlmHttp(200, Some(<< " ", "Answer", "\n", "[1]", " ", "https://src", " " >>)),
      LlmHttp(200, Some(<< "Plain" >>)) }

RisksReplies ==
    { LlmExc, LlmHttp(500, None),
      LlmHttp(200, Some(Raw(FENCE_JSON, JArray(<< ITEM_HIGH_HIGH, ITEM_NO_TYPE >>), FENCE))),
      LlmHttp(200, Some(Raw("", JArray(<< ITEM_LOW_HIGH, JOther >>), ""))),
      LlmHttp(200, Some(Raw("", JInvalid, ""))) }

InitAudit ==
    /\ HomeAtRest
    /\ fn_pc = "idle"
    /\ fn_args = << >>
    /\ fn_out = << >>
    /\ a_pc = "idle"
    /\ settings \in AuditSettings
    /\ uploads \in AuditUploads
    /\ NoLocals
    /\ a_exc = NoException
    /\ wire = << >>
    /\ ss_before = EmptySession

NextAudit ==
    \/ \E rows \in SheetRows : RunPipeline(rows)
    \/ Ingest
    \/ \E resp \in EmbedReplies : IndexPublic(resp)
    \/ \E resp \in EmbedReplies : IndexClient(resp)
    \/ \E resp \in QueryReplies : RetrievePublic(resp)
    \/ \E resp \in QueryReplies : RetrieveClient(resp)
    \/ \E resp \in LlmReplies : Answer(resp)
    \/ \E resp \in RisksReplies : ExtractRisks(resp)
    \/ ParseRisks
    \/ \E ok \in BOOLEAN : WriteWorkbooks(ok)
    \/ EndRun
    \/ ClearResults

SpecAudit == InitAudit /\ [][NextAudit]_vars

\* the indexes a run has built so far
BuiltStores == { st \in {pub, cli} : st.index # None }

\* C14: whenever index_documents returned a built index, the index holds
\* as many vectors as there are chunks and metadata entries returned with
\* it, whatever the embedding endpoint replied.
C14_IndexSizeEqualsChunks ==
    \A st \in BuiltStores :
        /\ Len(st.index[1]) = Len(st.chunks)
        /\ Len(st.meta) = Len(st.chunks)

\* C14 restricted to replies that hold one embedding per text sent.
C14_FullReplyIndexesAll ==
    \A i \in 1..Len(wire) :
        (wire[i].stage = "index_pub" /\ wire[i].reply.kind = "http"
           /\ Len(wire[i].reply.data) = wire[i].n /\ pub.index # None) =>
            /\ Len(pub.index[1]) = Len(pub.chunks)
            /\ Len(pub.meta) = Len(pub.chunks)

\* the retrieval that has just returned: its store, its hits, the stage
\* it ran in
JustRetrieved ==
    CASE a_pc = "retrieve_cli" -> [store |-> pub, hits |-> hits_pub, stage |-> "retrieve_pub"]
      [] a_pc = "answer" -> [store |-> cli, hits |-> hits_cli, stage |-> "retrieve_cli"]
      [] OTHER -> [store |-> NoStore, hits |-> << >>, stage |-> ""]

\* the embedding of the query of the retrieval that has just returned
QueryVector == normalize_L2(wire[Len(wire)].reply.data[1])

\* C15: retrieve_chunks returns up to k (source, chunk text) pairs in
\* descending similarity, each a distinct chunk of the index with its own
\* source name, at most as many as the index holds chunks; for an unbuilt
\* index it returns an empty list, raises nothing and makes no request.
\* (Stated for an index that holds one vector per chunk, so that it does
\* not rest on C14.)
C15_UpToKDistinctChunks ==
    /\ a_pc \in {"retrieve_cli", "answer"} =>
          LET r == JustRetrieved
              n == Len(r.store.chunks)
          IN  IF r.store.index = None
              THEN /\ r.hits = << >>
                   /\ \A i \in 1..Len(wire) :
                         ~(wire[i].stage = r.stage /\ wire[i].row = row)
              ELSE Len(r.store.index[1]) = n =>
                   /\ Len(r.hits) <= settings.top_k
                   /\ Len(r.hits) <= n
                   /\ \E f \in [1..Len(r.hits) -> 1..n] :
                         /\ \A i, j \in 1..Len(r.hits) : i # j => f[i] # f[j]
                         /\ \A i \in 1..Len(r.hits) :
                               r.hits[i] = << r.store.meta[f[i]][1], r.store.chunks[f[i]] >>
                         /\ \A i \in 1..(Len(r.hits) - 1) :
                               Dot(r.store.index[1][f[i]], QueryVector)
                                 >= Dot(r.store.index[1][f[i + 1]], QueryVector)
    /\ (a_pc = "failed" /\ a_exc.stage = "retrieve_pub") => pub.index # None
    /\ (a_pc = "failed" /\ a_exc.stage = "retrieve_cli") => cli.index # None

\* C15 restricted to an index that holds one vector per chunk and at
\* least k of them.
C15_EnoughChunksRetrieved ==
    (a_pc \in {"retrieve_cli", "answer"}
       /\ JustRetrieved.store.index # None
       /\ Len(JustRetrieved.store.index[1]) = Len(JustRetrieved.store.chunks)
       /\ Len(JustRetrieved.store.chunks) >= settings.top_k) =>
        LET r == JustRetrieved
            n == Len(r.store.chunks)
        IN  /\ Len(r.hits) = settings.top_k
            /\ \E f \in [1..Len(r.hits) -> 1..n] :
                  /\ \A i, j \in 1..Len(r.hits) : i # j => f[i] # f[j]
                  /\ \A i \in 1..Len(r.hits) :
                        r.hits[i] = << r.store.meta[f[i]][1], r.store.chunks[f[i]] >>
                  /\ \A i \in 1..(Len(r.hits) - 1) :
                        Dot(r.store.index[1][f[i]], QueryVector)
                          >= Dot(r.store.index[1][f[i + 1]], QueryVector)

\* an index of one chunk and one vector, searched with k = 2, has given
\* the one chunk twice
C15_PaddedHits ==
    /\ a_pc = "answer"
    /\ cli.index # None
    /\ Len(cli.index[1]) = 1
    /\ Len(cli.chunks) = 1
    /\ settings.top_k = 2
    /\ hits_cli = << << "b.pdf", cli.chunks[1] >>, << "b.pdf", cli.chunks[1] >> >>

Running == a_pc \notin {"idle", "done"}
NothingPersisted ==
    /\ session_state["pipeline_ran"] = Some(FALSE)
    /\ session_state["out1"] = None
    /\ session_state["out2"] = None

\* C19: if a stage of a pipeline run fails, the run stops at that stage
\* and the persisted results are what they were before the run:
\* pipeline_ran stays false and neither out1 nor out2 is stored.
C19_FailedRunPersistsNothing ==
    [][ /\ (a_pc' = "failed" /\ a_pc # "failed") =>
              /\ a_exc'.stage = a_pc
              /\ session_state' = ss_before
              /\ NothingPersisted'
        /\ Running' => (session_state' = ss_before' /\ NothingPersisted')
        /\ a_pc = "failed" =>
              /\ a_pc' = "idle"
              /\ session_state' = session_state
              /\ wire' = << >> ]_vars

\* C19 witness: a run that had answered its questions and parsed the
\* risks has failed at writing the workbooks, nothing stored.
C19_Witness ==
    /\ a_pc = "failed"
    /\ a_exc.stage = "write"
    /\ \E i \in 1..Len(df1) : df1[i].answered
    /\ risks_list # << >>
    /\ NothingPersisted

\* the stages of a run in their order
StageRank(stage) ==
    CASE stage = "ingest" -> 1
      [] stage \in {"index_pub", "index_cli"} -> 2
      [] stage \in {"retrieve_pub", "retrieve_cli", "answer"} -> 3
      [] stage \in {"risks", "parse", "write"} -> 4
      [] stage = "done" -> 5
      [] OTHER -> 0

\* the requests of the run that answer questions
AnswerRequests == SelectSeq(wire, LAMBDA q : q.stage = "answer")

\* C20: a run goes through ingest, index, answer questions, extract risks,
\* done, in this order: both corpora are indexed before the first
\* question is answered, the questions are answered one at a time in row
\* order with one LLM request of the one fixed shape for each, and the
\* risk extraction is called only after the last question was answered.
C20_StagesInOrder ==
    [][ /\ (a_pc # "idle" /\ a_pc' \notin {"idle", "failed"}) =>
              StageRank(a_pc') >= StageRank(a_pc)
        /\ (a_pc = "idle" /\ a_pc' # "idle") => a_pc' = "ingest"
        /\ (a_pc = "ingest" /\ a_pc' \notin {"ingest", "failed"}) => a_pc' = "index_pub"
        /\ (a_pc = "index_pub" /\ a_pc' \notin {"index_pub", "failed"}) => a_pc' = "index_cli"
        /\ StageRank(a_pc') = 3 =>
              \A i \in 1..Len(wire') : wire'[i].to = "llm" => wire'[i].row < row'
        /\ \A i, j \in 1..Len(wire') :
              i < j => /\ StageRank(wire'[i].stage) <= StageRank(wire'[j].stage)
                       /\ wire'[i].row <= wire'[j].row \/ wire'[j].stage = "risks"
        /\ LET asked == SelectSeq(wire', LAMBDA q : q.stage = "answer")
           IN  /\ \A i \in 1..Len(asked) :
                     /\ asked[i].to = "llm"
                     /\ asked[i].shape = "messages"
                     /\ df1'[asked[i].row].num # NAN
                     /\ \A j \in 1..Len(asked) : i < j => asked[i].row < asked[j].row
               /\ \A r \in 1..Len(df1') :
                     df1'[r].answered =>
                         Cardinality({ i \in 1..Len(asked) : asked[i].row = r }) = 1
        /\ (\E i \in 1..Len(wire') : wire'[i].stage = "risks") =>
              /\ \A r \in 1..Len(df1') : df1'[r].num # NAN => df1'[r].answered
              /\ wire'[Len(wire')].stage = "risks"
        /\ (StageRank(a_pc) >= 3 /\ a_pc' # "idle") =>
              /\ pub' = pub
              /\ cli' = cli ]_vars

\* C20 witness: a run is done that indexed both corpora, answered two
\* questions and then extracted the risks: 2 + 4 + 2 + 1 requests.
C20_Witness ==
    /\ a_pc = "done"
    /\ pub.index # None
    /\ cli.index # None
    /\ Len(wire) = 9
    /\ wire[1].stage = "index_pub"
    /\ wire[2].stage = "index_cli"
    /\ wire[5].stage = "answer"
    /\ wire[5].row = 1
    /\ wire[8].stage = "answer"
    /\ wire[8].row = 3
    /\ wire[9].stage = "risks"


----------------------------------------------------------------------------
(* The context of a row's question *)

\* the request get_llm_response has just posted for a row, if the latest
\* request of the run is one
AnswerPosted == wire # << >> /\ wire[Len(wire)].stage = "answer"

\* the first position of sub in t, 0 when t does not contain it
Pos(t, sub) ==
    IF Contains(t, sub)
    THEN CHOOSE i \in 1..(Len(t) - Len(sub) + 1) :
            /\ SubSeq(t, i, i + Len(sub) - 1) = sub
            /\ \A j \in 1..(i - 1) : SubSeq(t, j, j + Len(sub) - 1) # sub
    ELSE 0

\* t holds sub somewhere after position from and wholly before position to
Between(t, sub, from, to) ==
    \E i \in (from + 1)..(to - Len(sub)) : SubSeq(t, i, i + Len(sub) - 1) = sub

\* the public hits stand under the public header and the client hits under
\* the client header, each tagged with the name of its source
ChunksUnderHeaders(ctx) ==
    LET pubAt == Pos(ctx, << "PUBLIC CONTEXT:" >>)
        cliAt == Pos(ctx, << "CLIENT CONTEXT:" >>)
        exAt == Pos(ctx, << "FORMAT EXAMPLE:" >>)
    IN  /\ 0 < pubAt /\ pubAt < cliAt /\ cliAt < exAt
        /\ \A n \in 1..Len(hits_pub) :
              Between(ctx, << "[", hits_pub[n][1], "]", " " >> \o hits_pub[n][2], pubAt, cliAt)
        /\ \A n \in 1..Len(hits_cli) :
              Between(ctx, << "[", hits_cli[n][1], "]", " " >> \o hits_cli[n][2], cliAt, exAt)

\* the question and the example answer of the row stand after the
\* format-example header
ExampleGiven(ctx, r) ==
    LET exAt == Pos(ctx, << "FORMAT EXAMPLE:" >>)
    IN  /\ exAt > 0
        /\ Between(ctx, r.Question, exAt, Len(ctx) + 1)
        /\ Between(ctx, r.example, exAt, Len(ctx) + 1)

\* C21: the context sent to the LLM for a question holds the chunks
\* retrieved from the public corpus and from the client corpus under two
\* separate headers, each chunk tagged with its source name, and, when the
\* row of the question supplies an example answer, the text of that
\* example answer with the question as the format example.
C21_ContextCarriesExample ==
    AnswerPosted =>
        LET q == wire[Len(wire)]
        IN  /\ ChunksUnderHeaders(q.ctx)
            /\ df1[q.row].example # << >> => ExampleGiven(q.ctx, df1[q.row])

\* C21 without the example: the retrieved chunks stand under their headers,
\* each tagged with its source name.
C21_ChunksUnderHeaders ==
    AnswerPosted => ChunksUnderHeaders(wire[Len(wire)].ctx)

\* a request went out with hits from both corpora
C21_BothCorporaHit ==
    /\ AnswerPosted
    /\ hits_pub # << >>
    /\ hits_cli # << >>

\* C21: what the format example of a row with an example answer holds is
\* the two placeholders of line 321, not the row's texts.
C21_PlaceholdersSent ==
    /\ AnswerPosted
    /\ df1[wire[Len(wire)].row].example # << >>
    /\ Contains(wire[Len(wire)].ctx, << "{example}" >>)
    /\ ~Contains(wire[Len(wire)].ctx, df1[wire[Len(wire)].row].example)


----------------------------------------------------------------------------
(* get_llm_response of the audit assistant on its own: the split of the    *)
(* model's text into answer and sources                                     *)

\* the texts of the model: MaxReply or fewer tokens
MaxReply == 5
ReplyTokens == { "a", " ", "\n", "[1]", "[2]" }
RECURSIVE TextsOf(_)
TextsOf(n) ==
    IF n = 0 THEN { << >> }
    ELSE LET shorter == TextsOf(n - 1)
         IN  shorter \cup { Append(t, w) : t \in { x \in shorter : Len(x) = n - 1 },
                                            w \in ReplyTokens }
ReplyTexts == TextsOf(MaxReply)

InitSplit ==
    /\ HomeIdle
    /\ fn_pc = "in"
    /\ fn_args \in ReplyTexts
    /\ fn_out = << >>

\* streamlit2.py:324, the endpoint answering 200 with the text fn_args
CallSplit ==
    /\ fn_pc = "in"
    /\ fn_out' = audit_llm_response(LlmHttp(200, Some(fn_args)))
    /\ fn_pc' = "out"
    /\ UNCHANGED << envVars, sessionVars, callVars, pfVars, fn_args, auditVars, siteVars >>

NextSplit == CallSplit

SpecSplit == InitSplit /\ [][NextSplit]_vars

\* the position of the first line of t that starts with "[1]", 0 when no
\* line does
FirstSourcesLine(t) ==
    LET starts == { i \in 1..Len(t) : t[i] = "[1]" /\ (i = 1 \/ t[i - 1] = "\n") }
    IN  IF starts = { } THEN 0
        ELSE CHOOSE i \in starts : \A j \in starts : i <= j

\* the answer is what stands before position k of t and the sources part
\* what stands from it on, each without the whitespace around it
SplitBefore(out, t, k) ==
    /\ out.main_answer = Strip(SubSeq(t, 1, k - 1))
    /\ out.sources = Strip(SubSeq(t, k, Len(t)))

\* C22: get_llm_response of the audit assistant splits the model's text at
\* the first line that starts with "[1]": the main answer is everything
\* before that line and the sources part starts at that line; when no line
\* starts with "[1]" the main answer is the whole text and the sources part
\* is empty; a text whose very first line starts with "[1]" has an empty
\* main answer.
C22_SplitAtFirstSourcesLine ==
    fn_pc = "out" =>
        LET t == Strip(fn_args)
            k == FirstSourcesLine(t)
        IN  /\ ~fn_out.raised
            /\ k = 0 => fn_out.value = [main_answer |-> t, sources |-> << >>]
            /\ k > 0 => SplitBefore(fn_out.value, t, k)
            /\ k = 1 => fn_out.value.main_answer = << >>

\* C22 for the texts whose first line does not start with "[1]".
C22_SplitAtLaterSourcesLine ==
    fn_pc = "out" =>
        LET t == Strip(fn_args)
            k == FirstSourcesLine(t)
        IN  /\ ~fn_out.raised
            /\ k = 0 => fn_out.value = [main_answer |-> t, sources |-> << >>]
            /\ k > 1 => SplitBefore(fn_out.value, t, k)

\* a text is split at a later line
C22_SplitLater ==
    /\ fn_pc = "out"
    /\ FirstSourcesLine(Strip(fn_args)) > 1
    /\ fn_out.value.main_answer # << >>
    /\ fn_out.value.sources # << >>

\* C22: a text that is only a list of sources comes back as the answer,
\* with no sources.
C22_SourcesOnlyUnsplit ==
    /\ fn_pc = "out"
    /\ Strip(fn_args) = << "[1]", " ", "a" >>
    /\ fn_out.value = [main_answer |-> << "[1]", " ", "a" >>, sources |-> << >>]


----------------------------------------------------------------------------
(* verify_user on its own *)

\* the records a credentials file can hold for a user: a well-formed hash
\* of a password, no "password" member, an empty one, a text bcrypt
\* rejects
UserRecords ==
    { [name |-> "n", password |-> h] :
        h \in { Some(<< "$2b$12$", "correctpw" >>), Some(<< "$2b$12$", "otherpw" >>),
                None, Some(<< >>), Some(<< "plaintext" >>),
                Some(<< "$2b$12$" >>) } }
UserNames == { "Alice", "Bob" }
Credentials ==
    UNION { [names -> UserRecords] : names \in SUBSET UserNames }
VerifyArgs ==
    { [users |-> c, username |-> u, password |-> pw] :
        c \in Credentials, u \in UserNames \cup { "" },
        pw \in { "correctpw", "otherpw", "" } }

InitVerify ==
    /\ HomeIdle
    /\ fn_pc = "in"
    /\ fn_args \in VerifyArgs
    /\ fn_out = << >>

\* Home.py:573: the call, and the mapping it was given as the call leaves
\* it (users.get and user.get only read)
CallVerify ==
    /\ fn_pc = "in"
    /\ fn_out' = [returned |-> verify_user(fn_args.users, fn_args.username, fn_args.password),
                  users |-> fn_args.users]
    /\ fn_pc' = "out"
    /\ UNCHANGED << envVars, sessionVars, callVars, pfVars, fn_args, auditVars, siteVars >>

NextVerify == CallVerify

SpecVerify == InitVerify /\ [][NextVerify]_vars

\* hashed is a well-formed, non-empty hash of password
HashOf(hashed, password) == hashed = Some(<< "$2b$12$", password >>)

\* C23: verify_user returns true exactly when the username is a key of the
\* loaded credentials and the password matches the stored non-empty hash
\* of that user; it returns false, without raising, for an unknown
\* username, a wrong password and a user whose stored hash is missing,
\* empty or malformed; it never changes the credentials mapping.
C23_TrueExactlyOnMatch ==
    fn_pc = "out" =>
        /\ fn_out.returned \in BOOLEAN
        /\ fn_out.returned <=>
              /\ fn_args.username \in DOMAIN fn_args.users
              /\ HashOf(fn_args.users[fn_args.username].password, fn_args.password)
        /\ fn_out.users = fn_args.users

\* a known user is refused for a malformed hash, and another let in
C23_Witness ==
    /\ fn_pc = "out"
    /\ fn_args.username = "Alice"
    /\ DOMAIN fn_args.users = UserNames
    /\ \/ /\ fn_args.users["Alice"].password = Some(<< "plaintext" >>)
          /\ fn_out.returned = FALSE
       \/ /\ fn_args.users["Alice"].password = Some(<< "$2b$12$", "correctpw" >>)
          /\ fn_args.users["Bob"].password = Some(<< "$2b$12$", "otherpw" >>)
          /\ fn_args.password = "correctpw"
          /\ fn_out.returned = TRUE


----------------------------------------------------------------------------
(* The pages of the application in one browser: Home with its login and    *)
(* chat, and the scripts under pages/                                       *)

\* the pages that stop at an authentication gate: Intake_Form.py:5-7,
\* Support.py:147-150, TP_tool.py:6-8, VAT_Checker.py:160-176,
\* Value_Chain_Agent.py:8-10, audit_assistant.py:6-8
GatedPages ==
    { INTAKE_FORM, SUPPORT, TP_TOOL, VAT_CHECKER, VALUE_CHAIN_AGENT, AUDIT_ASSISTANT }
\* the pages that render a tool or the dashboard
ToolPages == GatedPages \cup { WORK_OVERVIEW }
Pages == ToolPages \cup { APPLICATION }
\* the pages whose sidebar, rendered before any gate, has a "Log out"
\* button: Application.py:152, Support.py:139, VAT_Checker.py:153,
\* Work Overview Dashboard.py:153
LogoutPages == { APPLICATION, SUPPORT, VAT_CHECKER, WORK_OVERVIEW }

\* the script of page p, run with the session ss, reaches its content
RendersContent(p, ss) ==
    IF p \in GatedPages THEN ss[SK_AUTH] # None /\ ss[SK_AUTH][1] = TRUE
    ELSE TRUE

\* a link or st.switch_page to page p, the session kept; the login screen
\* of Home has no link
FollowLink(p) ==
    /\ pc = "idle"
    /\ current_page # p
    /\ current_page = HOME => Authenticated
    /\ current_page' = p
    /\ UNCHANGED << envVars, sessionVars, callVars, pfVars, fnVars, auditVars,
                    earlier, hung, vat_run >>

\* the address of page p opened in the browser: a session of its own
OpenUrl(p) ==
    /\ pc = "idle"
    /\ current_page' = p
    /\ session_state' = EmptySession
    /\ earlier' = << >>
    /\ UNCHANGED << envVars, now, callVars, pfVars, fnVars, auditVars, hung, vat_run >>

\* The "Log out" button of Home (Home.py:625-626 and 213-217) or of the
\* sidebar of a page, which goes on to Home
LogOut ==
    /\ pc = "idle"
    /\ current_page \in LogoutPages \cup { HOME }
    /\ current_page = HOME => Authenticated
    /\ session_state' = LoggedOut(session_state)
    /\ current_page' = HOME
    /\ earlier' = Messages
    /\ UNCHANGED << envVars, now, callVars, pfVars, fnVars, auditVars, hung, vat_run >>

\* The "Clear conversation" button (Home.py:631-633)
ClearLog ==
    /\ pc = "idle"
    /\ current_page = HOME
    /\ Authenticated
    /\ session_state' = [session_state EXCEPT ![SK_MSGS] = Some(<< GREETING >>)]
    /\ earlier' = Messages
    /\ UNCHANGED << envVars, now, callVars, pfVars, fnVars, auditVars,
                    current_page, hung, vat_run >>

\* time passes
TickSeconds == 150
MaxNow == 600
Tick ==
    /\ now < MaxNow
    /\ now' = now + TickSeconds
    /\ UNCHANGED << envVars, session_state, callVars, pfVars, toolVars >>

\* the chat of this specification: one prompt, one kind of answer, a log
\* of MaxPortalLog messages at most
MaxPortalLog == 3
PortalLogins == { << "Alice", "correctpw" >>, << "Alice", "wrongpw" >>, << "Carol", "x" >> }

InitPortal ==
    /\ LLM_API_KEY = << "secret" >>
    /\ LLM_ENDPOINT = EP_AML
    /\ session_state = EmptySession
    /\ now = 0
    /\ IdleCall
    /\ pf_pc = "idle"
    /\ pf_data = NoFields
    /\ pf_out = None
    /\ ToolsIdle

NextPortal ==
    \/ \E c \in PortalLogins : current_page = HOME /\ login_ui(c[1], c[2])
    \/ LogOut
    \/ ClearLog
    \/ current_page = HOME /\ Len(Messages) < MaxPortalLog /\ Send(<< "hi" >>)
    \/ Post(R_OBJ_OK)
    \/ Finish
    \/ \E p \in Pages \cup { HOME } : FollowLink(p)
    \/ \E p \in Pages \cup { HOME } : OpenUrl(p)
    \/ Tick

SpecPortal == InitPortal /\ [][NextPortal]_vars


\* C24: after a clear-conversation action or a logout, from Home or from
\* the Log out button of a page, no message of the earlier conversation
\* remains in the session: the log is removed (logout) or reset to the
\* greeting (clear), a session nobody is signed in to holds no log, and
\* the next login in the same browser session starts from a log that
\* holds the greeting only.
C24_NoEarlierMessageRemains ==
    [][ /\ LogOut => ~Has(SK_MSGS)'
        /\ ClearLog => Messages' = << GREETING >>
        /\ ~Authenticated' => ~Has(SK_MSGS)'
        /\ (~Authenticated /\ Authenticated') => Messages' = << GREETING >>
      ]_vars

\* somebody is signed in again, with the greeting only, after the logout
\* from a page discarded a conversation
C24_Witness ==
    /\ Authenticated
    /\ Messages = << GREETING >>
    /\ Len(earlier) = 3
    /\ earlier[2].role = "user"
    /\ session_state[SK_USER] = Some("Alice")

LockUntil == IF Has("login_lock_until") THEN session_state["login_lock_until"][1] ELSE 0
Fails == IF Has("login_fail_count") THEN session_state["login_fail_count"][1] ELSE 0
\* Home.py:533
Locked == LockUntil > now

\* C28: in the login of Home.py the lock is engaged only by a failed
\* submission that brings login_fail_count to 5 or more failures since the
\* last successful login; while the lock is active no submitted
\* credentials are verified and the session cannot become authenticated;
\* a successful login resets login_fail_count to 0.
C28_LockOnlyAfterFiveFailures ==
    [][ /\ LockUntil' > LockUntil =>
              /\ ~Locked
              /\ Fails' = Fails + 1
              /\ Fails' >= MAX_FAILS
              /\ ~Authenticated'
              /\ LockUntil' = now + LOCK_SECONDS
        /\ (Locked /\ session_state' # EmptySession) =>
              /\ ~Authenticated'
              /\ Fails' = Fails
              /\ LockUntil' = LockUntil
        /\ (~Authenticated /\ Authenticated') =>
              session_state'["login_fail_count"] = Some(0)
      ]_vars

\* the lock of five failures has run out and the right password has signed
\* the user in
C28_Witness == ~Locked /\ LockUntil = LOCK_SECONDS /\ Authenticated /\ Fails = 0

\* the lock is active, five failures after the last successful login
C28_LockActive == Locked /\ Fails = MAX_FAILS /\ ~Authenticated /\ now > 0 /\ earlier # << >>

\* the page the browser shows has rendered its tool or dashboard
ToolShown == current_page \in ToolPages /\ RendersContent(current_page, session_state)

\* C29: every page under pages/ shows its tool content (VAT checker, audit
\* assistant, template filler, value chain agent, intake form, support
\* form, work overview dashboard) only in an authenticated session: when
\* the authenticated flag of the session is unset, the page stops before
\* rendering the tool or dashboard.
C29_ToolsOnlyWhenAuthenticated == ToolShown => Authenticated

\* C29 for the six pages that have a gate.
C29_GatedPagesStop ==
    (current_page \in GatedPages /\ ~Authenticated) => ~ToolShown

\* C29: the dashboard is rendered in a session nobody has signed in to.
C29_DashboardWithoutLogin ==
    /\ current_page = WORK_OVERVIEW
    /\ ~Has(SK_AUTH)
    /\ ToolShown


----------------------------------------------------------------------------
(* The results of the audit assistant in the session *)

\* C27: in every reachable state of an audit-assistant session,
\* pipeline_ran is true only if both result workbooks out1 and out2 are
\* stored in the session, across any sequence of successful runs, failing
\* runs and "Clear Results and Rerun Retrieval" clicks; a clear leaves
\* pipeline_ran false and both results removed.
C27_RanOnlyWithBothResults ==
    /\ [](PipelineRan => Has("out1") /\ Has("out2"))
    /\ [][ClearResults =>
             /\ session_state'["pipeline_ran"] = Some(FALSE)
             /\ ~Has("out1")' /\ ~Has("out2")'
         ]_vars

\* a run has ended and stored both workbooks, the first with an answered
\* row, and the page waits for a download or a clear
C27_Witness ==
    /\ a_pc = "idle"
    /\ PipelineRan
    /\ Has("out1") /\ Has("out2")
    /\ \E i \in 1..Len(session_state["out1"][1].rows) :
          session_state["out1"][1].rows[i].answered


----------------------------------------------------------------------------
(* The VAT checker: widgets/vat_checker/app.py and vat_utils.py.  A VAT     *)
(* number is spelled character by character.                                 *)

\* str.upper(), character by character
Upper(c) ==
    CASE c = "n" -> "N"
      [] c = "l" -> "L"
      [] c = "d" -> "D"
      [] c = "e" -> "E"
      [] OTHER -> c
UpperText(t) == [i \in 1..Len(t) |-> Upper(t[i])]

NotBlank(c) == c # " "
\* app.py:59
CountryOf(vat) == UpperText(SubSeq(vat, 1, Min(2, Len(vat))))
NumberOf(vat) == SelectSeq(SubSeq(vat, 3, Len(vat)), NotBlank)

\* the reply of VIES to one check: a transport error, or a status and a
\* body; a body is an XML document with its faultcode, valid, name and
\* address texts (None for an element that is not there), or no XML at all
VatExc == [kind |-> "exc", status |-> 0, body |-> << >>]
VatHttp(status, body) == [kind |-> "http", status |-> status, body |-> Some(body)]
Xml(fault, valid, name, address) ==
    [xml |-> TRUE, fault |-> fault, valid |-> valid, name |-> name, address |-> address]
NotXml == [xml |-> FALSE, fault |-> None, valid |-> None, name |-> None, address |-> None]

\* the text of an exception, str(e)
ExceptionText(exc) == << "error:", exc >>

\* a dict of parse_response: its keys, None for a key it does not have
VatDict(valid, status, details, name, address) ==
    [valid |-> valid, status |-> Some(status), details |-> Some(details),
     name |-> name, address |-> address]

\* vat_utils.py:25-57
parse_response(doc) ==
    IF ~doc.xml THEN Fail("ParseError")
    ELSE IF Truthy(doc.fault)
    THEN Ok(VatDict(FALSE,
                    IF doc.fault[1] = << "env:Server" >>
                    THEN << "Server Not Responding, try later" >> ELSE doc.fault[1],
                    << >>, None, None))
    ELSE LET valid == doc.valid = Some(<< "true" >>)
             name0 == IF Truthy(doc.name) THEN doc.name[1] ELSE << >>
             addr0 == JoinSpace(Split(IF Truthy(doc.address) THEN doc.address[1] ELSE << >>))
             name == IF LowerText(Strip(name0)) = << "name" >> THEN << >> ELSE name0
             addr == IF LowerText(Strip(addr0)) = << "address" >> THEN << >> ELSE addr0
             details == Join(<< " - " >>, SelectSeq(<< name, addr >>, LAMBDA x : x # << >>))
         IN  Ok(VatDict(valid,
                        IF valid THEN << "Valid" >> ELSE << "Invalid" >>,
                        IF details = << >> THEN << "(name unavailable)" >> ELSE details,
                        Some(IF name = << >> THEN << "(name unavailable)" >> ELSE name),
                        Some(IF addr = << >> THEN << "(address unavailable)" >> ELSE addr)))

\* vat_utils.py:59-64, for the reply resp to its one POST
check_vat(country, number, resp) ==
    IF resp.kind = "exc" THEN Fail("ConnectionError")
    ELSE IF resp.status >= 400 THEN Fail("HTTPError")
    ELSE parse_response(resp.body[1])

\* app.py:60-78: the row of one VAT number
ResultRow(vat, resp) ==
    LET country == CountryOf(vat)
        number == NumberOf(vat)
        r == check_vat(country, number, resp)
    IN  IF r.raised
        THEN [Country |-> country, Number |-> number, Status |-> << "Invalid" >>,
              Name |-> ExceptionText(r.exc), Address |-> << >>]
        ELSE [Country |-> country, Number |-> number,
              Status |-> IF r.value.status = None THEN << "Unknown" >> ELSE r.value.status[1],
              Name |-> IF r.value.name = None THEN << >> ELSE r.value.name[1],
              Address |-> IF r.value.address = None THEN << >> ELSE r.value.address[1]]

\* the request of one check
VatRequest(vat, resp) ==
    [country |-> CountryOf(vat), number |-> NumberOf(vat), reply |-> resp]

\* The "Check VAT numbers" button (app.py:44-57)
StartBatch(numbers) ==
    /\ vat_run.pc = "idle"
    /\ vat_run' = [pc |-> IF numbers = << >> THEN "warned" ELSE "checking",
                   vat_list |-> numbers, results |-> << >>, requests |-> << >>]
    /\ UNCHANGED << envVars, sessionVars, callVars, pfVars, fnVars, auditVars,
                    current_page, earlier, hung >>

\* a batch in which a check that raises leaves no row
CheckNext_drop_failed(resp) ==
    /\ vat_run.pc = "checking"
    /\ LET vat == vat_run.vat_list[Len(vat_run.requests) + 1]
           requests == Append(vat_run.requests, VatRequest(vat, resp))
       IN  vat_run' = [vat_run EXCEPT
              !.results = IF check_vat(CountryOf(vat), NumberOf(vat), resp).raised THEN @
                          ELSE Append(@, ResultRow(vat, resp)),
              !.requests = requests,
              !.pc = IF Len(requests) = Len(vat_run.vat_list) THEN "done" ELSE "checking"]
    /\ UNCHANGED << envVars, sessionVars, callVars, pfVars, fnVars, auditVars,
                    current_page, earlier, hung >>
\* app.py:58-84: one turn of the loop, VIES replying resp; "Done!" after
\* the last number
CheckNext(resp) ==
    /\ vat_run.pc = "checking"
    /\ LET vat == vat_run.vat_list[Len(vat_run.requests) + 1]
           requests == Append(vat_run.requests, VatRequest(vat, resp))
       IN  vat_run' = [vat_run EXCEPT
              !.results = Append(@, ResultRow(vat, resp)),
              !.requests = requests,
              !.pc = IF Len(requests) = Len(vat_run.vat_list) THEN "done" ELSE "checking"]
    /\ UNCHANGED << envVars, sessionVars, callVars, pfVars, fnVars, auditVars,
                    current_page, earlier, hung >>

\* the next script run: the table of the batch is gone
EndBatch ==
    /\ vat_run.pc \in { "done", "warned" }
    /\ vat_run' = NoBatch
    /\ UNCHANGED << envVars, sessionVars, callVars, pfVars, fnVars, auditVars,
                    current_page, earlier, hung >>

\* the batches: MaxBatch or fewer of three numbers
MaxBatch == 3
VatNumbers ==
    { << "n", "l", "1", " ", "2" >>, << "D", "E", "9" >>, << "x" >> }
RECURSIVE BatchesOf(_)
BatchesOf(n) ==
    IF n = 0 THEN { << >> }
    ELSE LET shorter == BatchesOf(n - 1)
         IN  shorter \cup { Append(b, v) : b \in { x \in shorter : Len(x) = n - 1 },
                                            v \in VatNumbers }
VatReplies ==
    { VatExc,
      VatHttp(500, NotXml),
      VatHttp(200, NotXml),
      VatHttp(200, Xml(Some(<< "env:Server" >>), None, None, None)),
      VatHttp(200, Xml(None, Some(<< "true" >>), Some(<< "ACME" >>), Some(<< "Main", " ", " ", "St" >>))),
      VatHttp(200, Xml(None, Some(<< "false" >>), Some(<< "name" >>), None)) }

InitVat ==
    /\ HomeIdle
    /\ fn_pc = "idle"
    /\ fn_args = << >>
    /\ fn_out = << >>

NextVat ==
    \/ \E numbers \in BatchesOf(MaxBatch) : StartBatch(numbers)
    \/ \E resp \in VatReplies : CheckNext(resp)
    \/ EndBatch

SpecVat == InitVat /\ [][NextVat]_vars

\* the check of request q raised
CheckRaised(q) ==
    \/ q.reply.kind = "exc"
    \/ q.reply.status >= 400
    \/ ~q.reply.body[1].xml

\* the row r carries the text of an exception
CarriesError(r) == r.Name # << >> /\ r.Name[1] = "error:"

\* C30: a VAT batch check over n input numbers always ends with exactly n
\* result rows, one per input in input order: a number whose check raises
\* (network error, HTTP error, unparseable response) yields a row with
\* status "Invalid" that carries the error text, and the remaining numbers
\* are still checked.
C30_OneRowPerNumber ==
    vat_run.pc = "done" =>
        LET n == Len(vat_run.vat_list)
        IN  /\ Len(vat_run.results) = n
            /\ Len(vat_run.requests) = n
            /\ \A i \in 1..n :
                  /\ vat_run.results[i].Country = CountryOf(vat_run.vat_list[i])
                  /\ vat_run.results[i].Number = NumberOf(vat_run.vat_list[i])
                  /\ vat_run.requests[i].country = vat_run.results[i].Country
                  /\ vat_run.requests[i].number = vat_run.results[i].Number
                  /\ CheckRaised(vat_run.requests[i]) =>
                        /\ vat_run.results[i].Status = << "Invalid" >>
                        /\ CarriesError(vat_run.results[i])
                  /\ ~CheckRaised(vat_run.requests[i]) =>
                        ~CarriesError(vat_run.results[i])

\* a batch of three has ended, its first check having raised and its last
\* one having found a valid number
C30_Witness ==
    /\ vat_run.pc = "done"
    /\ Len(vat_run.vat_list) = 3
    /\ CheckRaised(vat_run.requests[1])
    /\ vat_run.results[1].Status = << "Invalid" >>
    /\ vat_run.results[3].Status = << "Valid" >>


----------------------------------------------------------------------------
(* The operations of a session against endpoints that may stop answering   *)

\* no operation is under way: the script of the page has run to its end
AtRest == pc = "idle" /\ a_pc = "idle" /\ vat_run.pc = "idle"

\* from now on no remote endpoint answers a request
EndpointsHang ==
    /\ ~hung
    /\ hung' = TRUE
    /\ UNCHANGED << envVars, sessionVars, callVars, pfVars, fnVars, auditVars,
                    current_page, earlier, vat_run >>

\* Home.py:305-309: the POST of a candidate has timeout=60, so a request
\* that is not answered raises requests.Timeout, a RequestException
TimedPost ==
    \/ ~hung /\ Post(R_OBJ_OK)
    \/ hung /\ Post(R_EXC)

\* the answers of this specification: the connection fails, or the
\* endpoint answers well
LiveEmbedReplies == { EmbedExc, EmbedHttp(200, Vectors(MaxVectors)) }
LiveQueryReplies == { EmbedExc, EmbedHttp(200, << << 5, 0 >> >>) }
LiveLlmReplies == { LlmExc, LlmHttp(200, Some(<< "Plain" >>)) }
LiveRisksReplies ==
    { LlmExc, LlmHttp(200, Some(Raw("", JArray(<< ITEM_HIGH_HIGH >>), ""))) }
LiveVatReplies ==
    { VatExc, VatHttp(200, Xml(None, Some(<< "true" >>), Some(<< "ACME" >>), None)) }

\* streamlit2.py:87, 130 and 211 and vat_utils.py:62: requests.post
\* without a timeout returns or raises only when the endpoint answers or
\* the connection fails
UntimedCall ==
    /\ ~hung
    /\ \/ \E resp \in LiveEmbedReplies : IndexPublic(resp)
       \/ \E resp \in LiveEmbedReplies : IndexClient(resp)
       \/ \E resp \in LiveQueryReplies : RetrievePublic(resp)
       \/ \E resp \in LiveQueryReplies : RetrieveClient(resp)
       \/ \E resp \in LiveLlmReplies : Answer(resp)
       \/ \E resp \in LiveRisksReplies : ExtractRisks(resp)
       \/ \E resp \in LiveVatReplies : CheckNext(resp)

\* what the user does
UserAction ==
    \/ AtRest /\ login_ui("Alice", "correctpw")
    \/ AtRest /\ Len(Messages) < MaxPortalLog /\ Send(<< "hi" >>)
    \/ AtRest /\ \E rows \in SheetRows : RunPipeline(rows)
    \/ AtRest /\ \E numbers \in BatchesOf(1) : StartBatch(numbers)

\* what the running script does next
ScriptStep ==
    \/ TimedPost
    \/ Exhaust
    \/ Finish
    \/ Ingest
    \/ UntimedCall
    \/ ParseRisks
    \/ \E ok \in BOOLEAN : WriteWorkbooks(ok)
    \/ EndRun
    \/ EndBatch

InitLive ==
    /\ LLM_API_KEY = << "secret" >>
    /\ LLM_ENDPOINT = EP_AML
    /\ session_state = EmptySession
    /\ now = 0
    /\ IdleCall
    /\ pf_pc = "idle"
    /\ pf_data = NoFields
    /\ pf_out = None
    /\ SiteIdle
    /\ fn_pc = "idle"
    /\ fn_args = << >>
    /\ fn_out = << >>
    /\ a_pc = "idle"
    /\ settings = [chunk_size |-> 2, chunk_overlap |-> 1, top_k |-> 1]
    /\ uploads = [public_files |-> << FILE_A >>, client_files |-> << FILE_B >>]
    /\ NoLocals
    /\ a_exc = NoException
    /\ wire = << >>
    /\ ss_before = EmptySession

NextLive ==
    \/ UserAction
    \/ ScriptStep
    \/ EndpointsHang

\* a script that can take a step takes one: the interpreter runs; the user
\* and the endpoints owe nothing
SpecLive == InitLive /\ [][NextLive]_vars /\ WF_vars(ScriptStep)

\* C25: every user-triggered operation eventually ends, even when a remote
\* endpoint never answers: the chat turn, the run of the audit pipeline
\* (embedding calls, one LLM call for each question, the risk-extraction
\* call) and the VAT batch.
C25_EveryOperationEnds ==
    /\ (pc # "idle") ~> (pc = "idle")
    /\ (a_pc # "idle") ~> (a_pc = "idle")
    /\ (vat_run.pc # "idle") ~> (vat_run.pc = "idle")

\* C25 for the chat turn, whose POSTs have a timeout.
C25_ChatTurnEnds == (pc # "idle") ~> (pc = "idle")

\* C25: the audit pipeline waits for an answer of the embedding endpoint
\* that will not come.
C25_PipelineBlocked ==
    /\ hung
    /\ a_pc = "index_pub"
    /\ ~ENABLED ScriptStep


----------------------------------------------------------------------------
(* The per-row LLM loops: the question rows of the audit assistant          *)
(* (streamlit2.py:311-329) and the placeholder rows of the template filler  *)
(* (Tp_tool_clean/processor.py:65-85), run over the rows in a given order   *)

\* a row of the filler's workbook: its cells in columns C (the value to
\* use without a prompt), D (the placeholder, None when empty or "") and E (the
\* prompt)
FillerRow(c, d, e) == [C |-> c, D |-> d, E |-> e]

\* str.replace(k, v): every token k of raw gives way to the text v
Replace(raw, k, v) ==
    Concat([n \in 1..Len(raw) |-> IF raw[n] = k THEN v ELSE << raw[n] >>])

RECURSIVE substitute_append(_, _)
\* the values of the rows before are put behind the prompt
substitute_append(raw, replacements) ==
    IF replacements = << >> THEN raw
    ELSE substitute_append(raw \o << " " >> \o Head(replacements).v, Tail(replacements))
RECURSIVE substitute_all(_, _)
\* processor.py:76-77: the replacements made so far are applied to the
\* prompt one after the other, in the order of the dict
substitute_all(raw, replacements) ==
    IF replacements = << >> THEN raw
    ELSE substitute_all(Replace(raw, Head(replacements).k, Head(replacements).v),
                        Tail(replacements))

\* replacements[k] = v: a key keeps its place in the dict
Put(replacements, k, v) ==
    IF \E n \in 1..Len(replacements) : replacements[n].k = k
    THEN [n \in 1..Len(replacements) |->
             IF replacements[n].k = k THEN [k |-> k, v |-> v] ELSE replacements[n]]
    ELSE Append(replacements, [k |-> k, v |-> v])

\* the answer of the model for the row at position p
FillReply(p) == LlmHttp(200, Some(<< "value of row", ToString(p) >>))

\* processor.py:23-41: the request, context + prompt being the user message
FillRequest(p, context, raw) ==
    [Request("llm", "fill", p, "messages", 1, FillReply(p)) EXCEPT !.user = context \o raw]

RECURSIVE FillerLoop(_, _, _, _, _, _)
\* processor.py:69-83 over the rows taken in the order given, from its
\* i-th position on: the request sent for each row (None for a row
\* without one), by the position of the row in the sheet
FillerLoop(rows, order, i, context, replacements, sent) ==
    IF i > Len(order) THEN sent
    ELSE LET p == order[i]
             r == rows[p]
         IN  IF r.D = None
             THEN FillerLoop(rows, order, i + 1, context, replacements, sent)
             ELSE IF Strip(r.E) # << >>
             THEN LET raw == substitute_all(r.E, replacements)
                      value == Strip(FillReply(p).content[1])
                  IN  FillerLoop(rows, order, i + 1, context,
                                 Put(replacements, r.D[1], value),
                                 [sent EXCEPT ![p] = Some(FillRequest(p, context, raw))])
             ELSE FillerLoop(rows, order, i + 1, context,
                             Put(replacements, r.D[1], r.C), sent)

\* the stores of a run and the embedding of a question
RowsPub == index_documents(DictOf(<< FILE_A >>), 2, 1, EmbedHttp(200, Vectors(3))).value
RowsCli == index_documents(DictOf(<< FILE_B >>), 2, 1, EmbedHttp(200, Vectors(1))).value
QueryReply(question) ==
    EmbedHttp(200, << IF question = << "q1" >> THEN << 5, 0 >> ELSE << 0, -1 >> >>)
Hits(question, store) ==
    (CHOOSE r \in retrieve_chunks(question, store, 1, QueryReply(question)) : TRUE).value

RECURSIVE AuditLoop(_, _, _, _)
\* streamlit2.py:311-329 over the rows taken in the order given: the
\* answers are written to the rows and the request for each row recorded
AuditLoop(rows, order, i, sent) ==
    IF i > Len(order) THEN sent
    ELSE LET p == order[i]
             r == rows[p]
             reply == LlmHttp(200, Some(<< "answer", ToString(p) >>))
             ctx == row_context(Hits(r.Question, RowsPub), Hits(r.Question, RowsCli),
                                r.Question, r.example)
             answered == [rows EXCEPT
                             ![p].answer = audit_llm_response(reply).value.main_answer,
                             ![p].sources = audit_llm_response(reply).value.sources,
                             ![p].answered = TRUE]
         IN  IF r.num = NAN THEN AuditLoop(rows, order, i + 1, sent)
             ELSE AuditLoop(answered, order, i + 1,
                            [sent EXCEPT ![p] = Some(AnswerRequest(p, r.Question, ctx, reply))])

\* the rows and the orders: MaxRows or fewer rows of a few kinds
MaxRows == 3
FILL_A == FillerRow(<< >>, Some("{{A}}"), << "Describe", " ", "company" >>)
FILL_B == FillerRow(<< >>, Some("{{B}}"), << "Summarise", " ", "{{A}}" >>)
FILL_C == FillerRow(<< "fixed" >>, Some("{{C}}"), << " " >>)
FILL_SKIP == FillerRow(<< "x" >>, None, << "Ignored" >>)
FILL_D == FillerRow(<< >>, Some("{{D}}"), << "Use", " ", "{{C}}", " ", "{{B}}" >>)
FillerRows == { FILL_A, FILL_B, FILL_C, FILL_SKIP, FILL_D }
QuestionRows ==
    { Row("1", << "q1" >>, << "Yes,", " ", "IFRS" >>), Row(NAN, << >>, << >>),
      Row("2", << "q2" >>, << >>) }
FILL_CONTEXT == << "guidelines", "\n", "\n", "transcript" >>

Sheets(kinds) == UNION { [1..n -> kinds] : n \in 1..MaxRows }
Orders(n) == { o \in [1..n -> 1..n] : \A a, b \in 1..n : o[a] = o[b] => a = b }
SheetOrder(n) == [a \in 1..n |-> a]
RowsArgs ==
    { [tool |-> "audit", rows |-> rows, order |-> o] :
        rows \in Sheets(QuestionRows), o \in UNION { Orders(n) : n \in 1..MaxRows } }
    \cup
    { [tool |-> "filler", rows |-> rows, order |-> o] :
        rows \in Sheets(FillerRows), o \in UNION { Orders(n) : n \in 1..MaxRows } }

\* the requests of a loop over rows in the order given
RowRequests(tool, rows, order) ==
    LET none == [a \in 1..Len(rows) |-> None]
    IN  IF tool = "audit" THEN AuditLoop(rows, order, 1, none)
        ELSE FillerLoop(rows, order, 1, FILL_CONTEXT, << >>, none)

InitRows ==
    /\ HomeIdle
    /\ fn_pc = "in"
    /\ fn_args \in { x \in RowsArgs : Len(x.order) = Len(x.rows) }
    /\ fn_out = << >>

\* the loop run in the order of the sheet, and run in the order given
CallRows ==
    /\ fn_pc = "in"
    /\ fn_out' = [sheet_order |-> RowRequests(fn_args.tool, fn_args.rows,
                                              SheetOrder(Len(fn_args.rows))),
                  given_order |-> RowRequests(fn_args.tool, fn_args.rows, fn_args.order)]
    /\ fn_pc' = "out"
    /\ UNCHANGED << envVars, sessionVars, callVars, pfVars, fn_args, auditVars, siteVars >>

NextRows == CallRows

SpecRows == InitRows /\ [][NextRows]_vars

\* C26: in the per-row LLM loops (the question rows of the audit assistant
\* and the placeholder rows of the template filler) the request sent for
\* a row depends only on the cells of that row and the fixed document
\* context, never on the result produced for another row: processing the
\* rows in any order sends the same request for each row.
C26_SameRequestInAnyOrder ==
    fn_pc = "out" => fn_out.given_order = fn_out.sheet_order

\* the prompt cell of the row at position p holds the placeholder of
\* another row
NamesAnotherRow(rows, p) ==
    \E q \in 1..Len(rows) :
        /\ q # p
        /\ rows[q].D # None
        /\ \E n \in 1..Len(rows[p].E) : rows[p].E[n] = rows[q].D[1]

\* C26 as the code has it: the audit assistant sends the same request for
\* each row in any order; the template filler sends for a row the context
\* followed by the prompt cell with the placeholders of the rows processed
\* before it replaced by their values, which is the prompt cell itself, in
\* any order, for a row whose prompt cell holds no placeholder of another
\* row.
C26_SameRequestUnlessPlaceholderNamed ==
    fn_pc = "out" =>
        /\ fn_args.tool = "audit" => fn_out.given_order = fn_out.sheet_order
        /\ fn_args.tool = "filler" =>
              \A p \in 1..Len(fn_args.rows) :
                  ~NamesAnotherRow(fn_args.rows, p) =>
                      /\ fn_out.given_order[p] = fn_out.sheet_order[p]
                      /\ fn_out.given_order[p] # None =>
                            fn_out.given_order[p][1].user = FILL_CONTEXT \o fn_args.rows[p].E

\* the filler has run over three rows in another order than the sheet's:
\* the row with a plain prompt got its request as in sheet order, the row
\* that names it did not
C26_Witness ==
    /\ fn_pc = "out"
    /\ fn_args.tool = "filler"
    /\ fn_args.rows = << FILL_A, FILL_B, FILL_C >>
    /\ fn_args.order = << 2, 1, 3 >>
    /\ fn_out.given_order[1] = fn_out.sheet_order[1]
    /\ fn_out.given_order[1] # None
    /\ fn_out.given_order[2] # fn_out.sheet_order[2]

\* the audit assistant has run over its rows from the last to the first
C26_AuditReversed ==
    /\ fn_pc = "out"
    /\ fn_args.tool = "audit"
    /\ fn_args.order = << 3, 2, 1 >>
    /\ fn_out.given_order[1] # None
    /\ fn_out.given_order[3] # None

====
